---------------------------- MODULE Spec2Model ----------------------------
(***************************************************************************)
(* Verification model of aiida-kkr:                                        *)
(*   - the KKR output parser parse_kkr_outputfile                          *)
(*     (aiida_kkr.tools.kkrparser_functions, exercised by                  *)
(*     tests/test_kkrparser_functions.py),                                 *)
(*   - the workflow combine_imps_wc (workflows/_combine_imps.py) and its   *)
(*     calcfunction parse_Jij,                                             *)
(*   - the workflow kkr_dos_wc (workflows/dos.py),                         *)
(*   - the input plug-in VoronoiCalculation (calculations/voro.py).        *)
(***************************************************************************)
EXTENDS Integers, Sequences, FiniteSets, TLC

VARIABLES
    \* ---- parse_kkr_outputfile: the file set handed to the parser
    p_pc,          \* "idle" | "ready" | "returned" | "raised"
    absent,        \* the files of the six that do not exist ('wrong_name')
    damage,        \* the one damaged anchor of the file set, or NoDamage
    run,           \* [nspin, newsosol, natom]: the run that wrote the files
    iterations,    \* the per-iteration blocks of out_kkr, in file order
    ncore,         \* per atom: number of core states in out_potential
    \* ---- parse_kkr_outputfile: what it returns
    exec_order,    \* the order in which the extractors were executed
    success,
    msg_list,
    out_dict,
    \* ---- combine_imps_wc: inputs
    w_pc,          \* outline position, or "finished" | "excepted" | "idle"
    inputs,        \* the workflow's input ports
    imp1,          \* parent process of impurity1_output_node
    imp2,          \* parent process of impurity2_output_node
    \* ---- combine_imps_wc: context and engine state
    ctx,           \* self.ctx, the keys set so far
    exit_code,     \* 0 while running / finished ok, else the exit status
    calls,         \* sequence of the collaborators invoked, in order
    submitted,     \* the builders handed to self.submit, in order
    outputs,       \* the output labels registered with self.out
    \* ---- parse_Jij: arguments, locals and return value
    j_pc,          \* "idle" | "ready" | "returned"
    jijdata,       \* np.loadtxt of out_Jijmatrix: rows of three numbers
    impurity_info, \* [imp_cls]: the cluster rows <<x, y, z, idx, Z>>
    imp_z,         \* <<imp1_z, imp2_z>>: Zimp of the two impurities
    jij_combined_iter,  \* the array of that name when the function returns
    jij_parsed_dict,    \* the returned [Jijdata, text]
    \* ---- kkr_dos_wc
    dos_pc,        \* outline position, or "finished" | "excepted" | "idle"
    dos_inputs,    \* the workflow's inputs
    dos_ctx,       \* self.ctx, the keys set so far
    dos_exit_code, \* 0 while running / finished ok, else the exit status
    dos_calls,     \* the outline steps executed, in order
    dos_submitted, \* the calculations handed to self.submit, in order
    dos_outputs,   \* the output labels registered with self.out
    wf_default,    \* the class attribute kkr_dos_wc._wf_default
    \* ---- VoronoiCalculation.prepare_for_submission
    voro_pc,       \* "idle" | "ready" | "returned" | "raised"
    voro_inputs,   \* the input ports given and what they point to
    calcinfo       \* the returned CalcInfo, or the exception raised

pvars == <<p_pc, absent, damage, run, iterations, ncore,
           exec_order, success, msg_list, out_dict>>
wvars == <<w_pc, inputs, imp1, imp2, ctx, exit_code, calls, submitted, outputs>>
jvars == <<j_pc, jijdata, impurity_info, imp_z, jij_combined_iter,
           jij_parsed_dict>>
dvars == <<dos_pc, dos_inputs, dos_ctx, dos_exit_code, dos_calls,
           dos_submitted, dos_outputs, wf_default>>
vvars == <<voro_pc, voro_inputs, calcinfo>>
vars  == <<p_pc, absent, damage, run, iterations, ncore,
           exec_order, success, msg_list, out_dict,
           w_pc, inputs, imp1, imp2, ctx, exit_code, calls, submitted, outputs,
           j_pc, jijdata, impurity_info, imp_z, jij_combined_iter,
           jij_parsed_dict,
           dos_pc, dos_inputs, dos_ctx, dos_exit_code, dos_calls,
           dos_submitted, dos_outputs, wf_default,
           voro_pc, voro_inputs, calcinfo>>

-----------------------------------------------------------------------------
(* Bounds of the model *)

MaxAtoms == 2
MaxIter == 2

-----------------------------------------------------------------------------
(* Small helpers *)

Range(s) == {s[i] : i \in 1..Len(s)}

Last(s) == s[Len(s)]

Reverse(s) == [i \in 1..Len(s) |-> s[Len(s) + 1 - i]]

NoneVal == [tag |-> "None"]

Float(x) == [tag |-> "float", v |-> x]

-----------------------------------------------------------------------------
(* The six output files of a KKR run *)

outfile == "out_kkr"
outfile_0init == "output.0.txt"
outfile_000 == "output.000.txt"
timing_file == "out_timing.000.txt"
potfile_out == "out_potential"
nonco_out_file == "nonco_angle_out.dat"

Files == {outfile, outfile_0init, outfile_000, timing_file, potfile_out,
          nonco_out_file}

-----------------------------------------------------------------------------
(* The extractors of parse_kkr_outputfile.  An extractor is named by the   *)
(* quantity group its diagnostic message names.                            *)

msg_prefix == "Error parsing output of KKR: "

Msg(e) == msg_prefix \o e

\* The canonical list of extractor names: the order of the message list.
CanonicalOrder ==
    << "Version Info", "nspin/natom", "rms-error", "charge neutrality",
       "total magnetic moment", "spin moment per atom", "orbital moment",
       "EF", "DOS@EF", "total energy", "search for warnings",
       "energy contour", "core_states", "alat, 2*pi/alat",
       "single particle energies", "charges", "scfinfo", "kmesh",
       "symmetries", "ewald summation for madelung poterntial", "timings" >>

Extractors == Range(CanonicalOrder)

\* The runs of the reference corpus: non-magnetic (nspin = 1), magnetic
\* without spin-orbit coupling, and spin-orbit coupling (new solver).
RunKinds == { [nspin |-> 1, newsosol |-> FALSE],
              [nspin |-> 2, newsosol |-> FALSE],
              [nspin |-> 2, newsosol |-> TRUE] }

\* Whether the run wrote the lines extractor e looks for: moment lines are
\* written by magnetic runs only, orbital-moment lines by spin-orbit runs only.
Writes(e) ==
    CASE e = "orbital moment" -> run.newsosol
      [] e \in {"total magnetic moment", "spin moment per atom"} -> run.nspin > 1
      [] OTHER -> TRUE

\* Variant: every extractor demands its lines, whatever the run.
Expects_always(e) == TRUE

\* Whether extractor e demands its lines: the moment lines are optional, their
\* absence from a non-magnetic or non-spin-orbit run is not a failure.
Expects(e) ==
    CASE e = "orbital moment" -> run.newsosol
      [] e \in {"total magnetic moment", "spin moment per atom"} -> run.nspin > 1
      [] OTHER -> TRUE

\* The files extractor e reads, as the ablation tests list them: removing a
\* file fails exactly the extractors that read it.
NeedsTable(e) ==
    CASE e \in {"Version Info", "charge neutrality", "total magnetic moment",
                "EF", "DOS@EF", "total energy", "search for warnings"}
            -> {outfile}
      [] e \in {"nspin/natom", "energy contour", "alat, 2*pi/alat",
                "symmetries", "ewald summation for madelung poterntial"}
            -> {outfile_0init}
      [] e = "rms-error" -> {outfile, outfile_000}
      [] e = "spin moment per atom"
            -> {outfile_0init}
               \cup (IF run.nspin > 1 THEN {outfile} ELSE {})
               \cup (IF run.nspin > 1 /\ run.newsosol THEN {nonco_out_file} ELSE {})
      [] e = "orbital moment"
            -> {outfile_0init} \cup (IF run.newsosol THEN {outfile} ELSE {})
      [] e = "core_states" -> {potfile_out}
      [] e = "single particle energies" -> {outfile_000}
      [] e = "charges" -> {outfile, outfile_000}
      [] e = "scfinfo" -> {outfile, outfile_0init, outfile_000}
      [] e = "kmesh" -> {outfile_0init, outfile_000}
      [] e = "timings" -> {timing_file}

\* Variant: the charges are also looked up in the potential file.
Needs_charges_from_potfile(e) ==
    IF e = "charges" THEN NeedsTable(e) \cup {potfile_out} ELSE NeedsTable(e)

\* Variant: the orbital moments are also projected on the spin directions.
Needs_orbmom_from_nonco(e) ==
    IF e = "orbital moment" THEN NeedsTable(e) \cup {nonco_out_file}
    ELSE NeedsTable(e)

\* Variant: the iteration count is cross-checked against the timing file.
Needs_scfinfo_from_timing(e) ==
    IF e = "scfinfo" THEN NeedsTable(e) \cup {timing_file} ELSE NeedsTable(e)

\* The files extractor e opens: e fails when one of them is missing.
Needs(e) == NeedsTable(e)

-----------------------------------------------------------------------------
(* Tokenized line scanner *)

NoDamage == [ext |-> "none", kind |-> "none"]

DamageKinds == {"noanchor", "malformed"}

\* The number of lines matching the anchor of e in the files that exist
\* (the caller checks that they exist): none when the run wrote no such line
\* or the line is gone.
search_string(e) ==
    IF ~Writes(e) \/ (damage.ext = e /\ damage.kind = "noanchor") THEN 0 ELSE 1

\* The trailing token of an anchor line: None when it is malformed.
parse_token(e) ==
    IF damage.ext = e /\ damage.kind = "malformed" THEN NoneVal ELSE Float(1)

\* The failure signal of extractor e on the current file set: a file it reads
\* is missing, a line it demands is not found, or its token is malformed.
Fails(e) ==
    \/ \E f \in Needs(e) : f \in absent
    \/ Expects(e) /\ search_string(e) = 0
    \/ search_string(e) > 0 /\ parse_token(e) = NoneVal

-----------------------------------------------------------------------------
(* Section extractors: the keys each contributes to the output record.     *)
(* Nested keys are written group.key.                                      *)

KeysOf(e) ==
    CASE e = "Version Info" ->
            {"code_info_group.code_version", "code_info_group.compile_options",
             "code_info_group.calculation_serial_number"}
      [] e = "nspin/natom" ->
            {"nspin", "number_pf_atoms_in_unit_cell", "use_newsosol"}
      [] e = "rms-error" ->
            {"convergence_group.rms", "convergence_group.rms_all_iterations",
             "convergence_group.rms_per_atom", "convergence_group.rms_unit"}
      [] e = "charge neutrality" ->
            {"convergence_group.charge_neutrality",
             "convergence_group.charge_neutrality_all_iterations",
             "convergence_group.charge_neutrality_unit"}
      [] e = "total magnetic moment" ->
            IF run.nspin > 1
            THEN {"magnetism_group.total_spin_moment",
                  "magnetism_group.total_spin_moment_unit",
                  "convergence_group.total_spin_moment_all_iterations"}
            ELSE {}
      [] e = "spin moment per atom" ->
            (IF run.nspin > 1
             THEN {"magnetism_group.spin_moment_per_atom",
                   "magnetism_group.spin_moment_unit",
                   "convergence_group.spin_moment_per_atom_all_iterations"}
             ELSE {})
            \cup
            (IF run.nspin > 1 /\ run.newsosol
             THEN {"magnetism_group.spin_moment_vector_per_atom",
                   "magnetism_group.spin_moment_angles_per_atom",
                   "magnetism_group.spin_moment_angles_per_atom_unit"}
             ELSE {})
      [] e = "orbital moment" ->
            IF run.newsosol
            THEN {"magnetism_group.total_orbital_moment",
                  "magnetism_group.orbital_moment_unit",
                  "magnetism_group.orbital_moment_per_atom",
                  "convergence_group.orbital_moment_per_atom_all_iterations"}
            ELSE {}
      [] e = "EF" ->
            {"fermi_energy", "convergence_group.fermi_energy_all_iterations"}
      [] e = "DOS@EF" ->
            {"dos_at_fermi_energy",
             "convergence_group.dos_at_fermi_energy_all_iterations"}
      [] e = "total energy" ->
            {"energy", "energy_unit", "total_energy_Ry", "total_energy_Ry_unit",
             "convergence_group.total_energy_Ry_all_iterations"}
      [] e = "search for warnings" ->
            {"warnings_group.number_of_warnings", "warnings_group.warnings_list"}
      [] e = "energy contour" ->
            {"energy_contour_group.emin", "energy_contour_group.npol",
             "energy_contour_group.temperature", "energy_contour_group.n1",
             "energy_contour_group.n2", "energy_contour_group.n3",
             "energy_contour_group.number_of_energy_points"}
      [] e = "core_states" ->
            {"core_states_group.number_of_core_states_per_atom",
             "core_states_group.descr_highest_lying_core_state_per_atom",
             "core_states_group.energy_highest_lying_core_state_per_atom",
             "core_states_group.energy_highest_lying_core_state_per_atom_unit"}
      [] e = "alat, 2*pi/alat" ->
            {"alat_internal", "alat_internal_unit", "two_pi_over_alat_internal",
             "two_pi_over_alat_internal_unit"}
      [] e = "single particle energies" ->
            {"single_particle_energies", "single_particle_energies_unit"}
      [] e = "charges" ->
            {"charge_core_states_per_atom", "nuclear_charge_per_atom",
             "charge_valence_states_per_atom"}
      [] e = "scfinfo" ->
            {"convergence_group.number_of_iterations",
             "convergence_group.number_of_iterations_max",
             "convergence_group.calculation_converged",
             "convergence_group.nsteps_exhausted",
             "convergence_group.imix", "convergence_group.strmix"}
      [] e = "kmesh" ->
            {"kmesh_group.number_different_kmeshes",
             "kmesh_group.number_kpoints_per_kmesh",
             "kmesh_group.kmesh_energypoint"}
      [] e = "symmetries" ->
            {"symmetries_group.number_of_lattice_symmetries",
             "symmetries_group.number_of_used_symmetries",
             "symmetries_group.symmetry_description"}
      [] e = "ewald summation for madelung poterntial" ->
            {"ewald_sum_group.ewald_summation_mode",
             "ewald_sum_group.rsum_cutoff", "ewald_sum_group.gsum_cutoff"}
      [] e = "timings" -> {"timings_group", "timings_unit"}

-----------------------------------------------------------------------------
(* The quantities read from the files *)

\* rms of every iteration block of out_kkr, in the order of the file.
get_rms == [i \in 1..Len(iterations) |-> iterations[i].rms]

\* charge neutrality of every iteration block of out_kkr.
get_neutr == [i \in 1..Len(iterations) |-> iterations[i].neutr]

\* Variant: one potential per atom, whatever the number of spin channels.
NumPotentials_per_atom == run.natom

\* Number of potentials in out_potential: one per atom and spin channel.
NumPotentials == run.natom * run.nspin

\* Atom to which potential b of out_potential belongs.
AtomOf(b) == ((b - 1) \div (NumPotentials \div run.natom)) + 1

\* Core states of every potential of out_potential, in file order:
\* [n, descr, energy]; a potential without core states gets the sentinel
\* description and None.
get_core_states ==
    [b \in 1..NumPotentials |->
        IF ncore[AtomOf(b)] = 0
        THEN [n |-> 0, descr |-> "no core states", energy |-> NoneVal]
        ELSE [n |-> ncore[AtomOf(b)], descr |-> "3p", energy |-> Float(-3)]]

\* Variant: the first iteration is reported.
first_iteration(hist) == hist[1]

\* The last-iteration value of a per-iteration history.
last_iteration(hist) == hist[Len(hist)]

\* The value extractors store under key k.
ValueOf(k) ==
    CASE k = "nspin" -> run.nspin
      [] k = "number_pf_atoms_in_unit_cell" -> run.natom
      [] k = "use_newsosol" -> run.newsosol
      [] k = "convergence_group.rms" -> last_iteration(get_rms)
      [] k = "convergence_group.rms_all_iterations" -> get_rms
      [] k = "convergence_group.charge_neutrality" -> last_iteration(get_neutr)
      [] k = "convergence_group.charge_neutrality_all_iterations" -> get_neutr
      [] k = "convergence_group.number_of_iterations" -> Len(iterations)
      [] k = "core_states_group.number_of_core_states_per_atom" ->
            [b \in 1..Len(get_core_states) |-> get_core_states[b].n]
      [] k = "core_states_group.descr_highest_lying_core_state_per_atom" ->
            [b \in 1..Len(get_core_states) |-> get_core_states[b].descr]
      [] k = "core_states_group.energy_highest_lying_core_state_per_atom" ->
            [b \in 1..Len(get_core_states) |-> get_core_states[b].energy]
      [] OTHER -> "parsed"

-----------------------------------------------------------------------------
(* Aggregation and validation engine *)

\* Variant: a missing file is not caught and raises to the caller.
Extract_raising(e, record) ==
    IF \E f \in Needs(e) : f \in absent
    THEN [record |-> record, ok |-> FALSE, raised |-> TRUE]
    ELSE IF Fails(e)
    THEN [record |-> record, ok |-> FALSE, raised |-> FALSE]
    ELSE [record |-> [k \in KeysOf(e) |-> ValueOf(k)] @@ record,
          ok |-> TRUE, raised |-> FALSE]

\* Variant: the keys are stored before the extraction is known to succeed.
Extract_partial(e, record) ==
    [record |-> [k \in KeysOf(e) |-> ValueOf(k)] @@ record,
     ok |-> ~Fails(e), raised |-> FALSE]

\* One extractor applied to the record: (record, success, raised).  A failed
\* extraction leaves the record as it was; nothing is raised to the caller.
Extract(e, record) ==
    IF Fails(e)
    THEN [record |-> record, ok |-> FALSE, raised |-> FALSE]
    ELSE [record |-> [k \in KeysOf(e) |-> ValueOf(k)] @@ record,
          ok |-> TRUE, raised |-> FALSE]

\* All extractors of `order` applied in turn; `failed` lists the extractors
\* that failed, in the order the failures were detected.
RECURSIVE RunExtractors(_, _)
RunExtractors(order, acc) ==
    IF order = << >> \/ acc.raised
    THEN acc
    ELSE LET r == Extract(Head(order), acc.record)
         IN  RunExtractors(Tail(order),
                 [record |-> r.record,
                  failed |-> IF r.ok THEN acc.failed
                             ELSE Append(acc.failed, Head(order)),
                  raised |-> r.raised])

\* Variant: the messages are kept in the order the failures were detected.
Messages_insertion(failed) == [i \in 1..Len(failed) |-> Msg(failed[i])]

\* The message list of a set of failures: one message per failed extractor,
\* in the order of the canonical list.
Messages(failed) ==
    LET names == SelectSeq(CanonicalOrder, LAMBDA e : e \in Range(failed))
    IN  [i \in 1..Len(names) |-> Msg(names[i])]

\* The overall verdict.
Verdict(failed) == Len(failed) = 0

\* The orders in which the engine may execute the extractors.
ExecOrders == {CanonicalOrder, Reverse(CanonicalOrder)}

EmptyRecord == [k \in {} |-> "parsed"]

\* parse_kkr_outputfile(out_dict = {}, outfile, outfile_0init, outfile_000,
\*                      timing_file, potfile_out, nonco_out_file)
parse_kkr_outputfile ==
    /\ p_pc = "ready"
    /\ \E order \in ExecOrders :
          LET res == RunExtractors(order,
                         [record |-> EmptyRecord, failed |-> << >>,
                          raised |-> FALSE])
          IN  /\ exec_order' = order
              /\ IF res.raised
                 THEN /\ p_pc' = "raised"
                      /\ UNCHANGED <<success, msg_list, out_dict>>
                 ELSE /\ p_pc' = "returned"
                      /\ success' = Verdict(res.failed)
                      /\ msg_list' = Messages(res.failed)
                      /\ out_dict' = res.record
    /\ UNCHANGED <<absent, damage, run, iterations, ncore>>
    /\ UNCHANGED <<wvars, jvars, dvars, vvars>>

-----------------------------------------------------------------------------
(* File sets handed to the parser *)

\* One iteration block of out_kkr.
IterBlocks == { [rms |-> 2, neutr |-> -1], [rms |-> 1, neutr |-> 0] }

Runs == { [nspin |-> k.nspin, newsosol |-> k.newsosol, natom |-> n] :
            k \in RunKinds, n \in 1..MaxAtoms }

Damages == {NoDamage} \cup
           { [ext |-> e, kind |-> d] : e \in Extractors, d \in DamageKinds }

WorkflowIdle ==
    /\ w_pc = "idle"
    /\ inputs = << >>
    /\ imp1 = << >>
    /\ imp2 = << >>
    /\ ctx = << >>
    /\ exit_code = 0
    /\ calls = << >>
    /\ submitted = << >>
    /\ outputs = {}

\* parse_Jij is not called.
JijIdle ==
    /\ j_pc = "idle"
    /\ jijdata = << >>
    /\ impurity_info = << >>
    /\ imp_z = << >>
    /\ jij_combined_iter = << >>
    /\ jij_parsed_dict = << >>

\* The class attribute kkr_dos_wc._wf_default as the module defines it.
_wf_default ==
    [dos_params |-> [nepts |-> 61, tempr |-> 200, emin |-> -1, emax |-> 1,
                     kmesh |-> <<30, 30, 30>>]]

\* No kkr_dos_wc is running.
DosIdle ==
    /\ dos_pc = "idle"
    /\ dos_inputs = << >>
    /\ dos_ctx = << >>
    /\ dos_exit_code = 0
    /\ dos_calls = << >>
    /\ dos_submitted = << >>
    /\ dos_outputs = {}
    /\ wf_default = _wf_default

\* No VoronoiCalculation is prepared.
VoroIdle ==
    /\ voro_pc = "idle"
    /\ voro_inputs = << >>
    /\ calcinfo = << >>

\* The numbers of the reference run: used for the file sets with a damaged
\* anchor, whose numbers are not varied.
RefIterations == << [rms |-> 2, neutr |-> -1] >>

RefCore(natom) == [a \in 1..natom |-> IF a = 1 THEN 0 ELSE 5]

\* Any subset of the six files may be missing.  Either no anchor is damaged
\* and the numbers in the files vary, or one anchor the run writes is damaged
\* and the numbers are those of the reference run.
InitParser ==
    /\ p_pc = "ready"
    /\ absent \in SUBSET Files
    /\ run \in Runs
    /\ damage \in Damages
    /\ damage.ext \in Extractors => Writes(damage.ext)
    /\ \E n \in 1..MaxIter : iterations \in [1..n -> IterBlocks]
    /\ ncore \in [1..run.natom -> {0, 5}]
    /\ damage # NoDamage => iterations = RefIterations /\ ncore = RefCore(run.natom)
    /\ exec_order = << >>
    /\ success = FALSE
    /\ msg_list = << >>
    /\ out_dict = EmptyRecord
    /\ WorkflowIdle
    /\ JijIdle
    /\ DosIdle
    /\ VoroIdle

NextParser == parse_kkr_outputfile

SpecParser == InitParser /\ [][NextParser]_vars

-----------------------------------------------------------------------------
(* Properties of parse_kkr_outputfile *)

Returned == p_pc = "returned"

Parsed == p_pc # "ready"

\* All six files exist and no anchor is damaged.
ValidFileSet == absent = {} /\ damage = NoDamage

\* Exactly file f is missing and the rest of the set is valid.
OnlyMissing(f) == absent = {f} /\ damage = NoDamage

\* Extractor e cannot succeed on the file set: a file it reads is missing or
\* its anchor is damaged.
InputFails(e) == (\E f \in Needs(e) : f \in absent) \/ damage.ext = e

Occurrences(m) == Cardinality({i \in 1..Len(msg_list) : msg_list[i] = m})

CanonicalPos(m) ==
    CHOOSE i \in 1..Len(CanonicalOrder) : Msg(CanonicalOrder[i]) = m

\* C1: parsing any complete, valid set of the six output files returns
\* success = True and an empty message list.
C1_ValidSetSucceeds ==
    (Parsed /\ ValidFileSet) =>
        (Returned /\ success = TRUE /\ msg_list = << >>)

C1_Witness ==
    /\ Returned /\ ValidFileSet /\ success = TRUE
    /\ run.nspin = 2 /\ ~run.newsosol
    /\ "magnetism_group.spin_moment_per_atom" \in DOMAIN out_dict

\* C2: the parser always returns a result (it never raises), and the
\* returned success is True only if no extractor failed: whenever an
\* extractor fails (file absent, anchor absent, malformed token) success is
\* False.
C2_SuccessOnlyIfNoFailure ==
    /\ p_pc # "raised"
    /\ Returned =>
        /\ success = TRUE => \A e \in Extractors : ~InputFails(e)
        /\ (\E e \in Extractors : InputFails(e)) => success = FALSE

C2_Witness ==
    /\ Returned /\ success = FALSE
    /\ absent = {} /\ damage.kind = "malformed"

\* C3: the keys of the output record are exactly the keys of the extractors
\* that succeeded; a failed extractor adds no key and exactly one message, a
\* succeeding one adds its keys and no message.
C3_KeysMatchSucceeded ==
    Returned =>
        /\ DOMAIN out_dict =
              UNION {KeysOf(e) : e \in {x \in Extractors : ~InputFails(x)}}
        /\ \A e \in Extractors :
              Occurrences(Msg(e)) = IF InputFails(e) THEN 1 ELSE 0
        /\ Len(msg_list) = Cardinality({e \in Extractors : InputFails(e)})

C3_Witness ==
    /\ Returned
    /\ \E e \in Extractors : InputFails(e) /\ KeysOf(e) # {}
                             /\ KeysOf(e) \cap DOMAIN out_dict = {}
    /\ \E e \in Extractors : ~InputFails(e) /\ KeysOf(e) # {}
                             /\ KeysOf(e) \subseteq DOMAIN out_dict

\* C4: the message list follows the canonical list of extractor names,
\* whatever the order in which the extractors were executed and the failures
\* detected.
C4_MessagesCanonical ==
    Returned =>
        \A i, j \in 1..Len(msg_list) :
            i < j => CanonicalPos(msg_list[i]) < CanonicalPos(msg_list[j])

C4_Witness ==
    /\ Returned
    /\ exec_order = Reverse(CanonicalOrder)
    /\ Len(msg_list) >= 2

\* C5: with only out_potential missing the parser returns success = False
\* and exactly the message list ['Error parsing output of KKR: core_states'].
C5_MissingPotfile ==
    (Returned /\ OnlyMissing(potfile_out)) =>
        /\ success = FALSE
        /\ msg_list = << "Error parsing output of KKR: core_states" >>

C5_Witness ==
    Returned /\ OnlyMissing(potfile_out) /\ Len(msg_list) = 1

\* C6: with only nonco_angle_out.dat missing in a magnetic spin-orbit run the
\* parser returns success = False and exactly the message list
\* ['Error parsing output of KKR: spin moment per atom']; every other
\* extractor still contributes its keys.
C6_MissingNonco ==
    (Returned /\ OnlyMissing(nonco_out_file) /\ run.nspin = 2 /\ run.newsosol) =>
        /\ success = FALSE
        /\ msg_list = << "Error parsing output of KKR: spin moment per atom" >>
        /\ \A e \in Extractors \ {"spin moment per atom"} :
              KeysOf(e) \subseteq DOMAIN out_dict

C6_Witness ==
    /\ Returned /\ OnlyMissing(nonco_out_file) /\ run.nspin = 2 /\ run.newsosol
    /\ "magnetism_group.orbital_moment_per_atom" \in DOMAIN out_dict

\* C7 as stated: of the single-file ablations, the missing timing file is the
\* only one that produces just one message (['... timings']); every other
\* missing file produces more than one.
C7_OnlyTimingSingleMessage ==
    \A f \in Files :
        (Returned /\ OnlyMissing(f)) =>
            IF f = timing_file
            THEN msg_list = << "Error parsing output of KKR: timings" >>
            ELSE Len(msg_list) > 1

\* C7 amended: the missing timing file produces exactly ['... timings'] and a
\* missing log file (out_kkr, output.0.txt, output.000.txt) more than one
\* message; a missing out_potential, and a missing nonco_angle_out.dat in a
\* magnetic spin-orbit run, produce exactly one message too.
C7_SingleMessageAblations ==
    \A f \in Files :
        (Returned /\ OnlyMissing(f)) =>
            CASE f = timing_file ->
                    msg_list = << "Error parsing output of KKR: timings" >>
              [] f \in {outfile, outfile_0init, outfile_000} ->
                    Len(msg_list) > 1
              [] f = potfile_out -> Len(msg_list) = 1
              [] f = nonco_out_file ->
                    (run.nspin = 2 /\ run.newsosol) => Len(msg_list) = 1

C7_Witness ==
    /\ Returned /\ OnlyMissing(timing_file)
    /\ msg_list = << "Error parsing output of KKR: timings" >>

\* C8: in every record the last-iteration rms and charge neutrality equal the
\* last entry of their per-iteration histories, for any number of iterations.
C8_LastEqualsHistory ==
    Returned =>
        /\ "convergence_group.rms" \in DOMAIN out_dict =>
              /\ "convergence_group.rms_all_iterations" \in DOMAIN out_dict
              /\ out_dict["convergence_group.rms"] =
                    Last(out_dict["convergence_group.rms_all_iterations"])
        /\ "convergence_group.charge_neutrality" \in DOMAIN out_dict =>
              /\ "convergence_group.charge_neutrality_all_iterations"
                    \in DOMAIN out_dict
              /\ out_dict["convergence_group.charge_neutrality"] =
                    Last(out_dict["convergence_group.charge_neutrality_all_iterations"])

C8_Witness ==
    /\ Returned
    /\ "convergence_group.rms" \in DOMAIN out_dict
    /\ "convergence_group.charge_neutrality" \in DOMAIN out_dict
    /\ Len(out_dict["convergence_group.rms_all_iterations"]) >= 2
    /\ out_dict["convergence_group.rms_all_iterations"][1] #
          Last(out_dict["convergence_group.rms_all_iterations"])

CoreN == out_dict["core_states_group.number_of_core_states_per_atom"]

CoreDescr == out_dict["core_states_group.descr_highest_lying_core_state_per_atom"]

CoreEnergy == out_dict["core_states_group.energy_highest_lying_core_state_per_atom"]

HasCoreStates ==
    Returned /\ "core_states_group.number_of_core_states_per_atom" \in DOMAIN out_dict

\* Entries without core states carry the sentinel description and None.
CoreSentinels ==
    \A b \in 1..Len(CoreN) :
        CoreN[b] = 0 => CoreDescr[b] = "no core states" /\ CoreEnergy[b] = NoneVal

\* C9 as stated: the three per-atom core-state arrays have length
\* number_of_atoms, and entries with zero core states carry the sentinel
\* 'no core states' and energy None.
C9_CoreArraysPerAtom ==
    HasCoreStates =>
        /\ Len(CoreN) = run.natom
        /\ Len(CoreDescr) = run.natom
        /\ Len(CoreEnergy) = run.natom
        /\ CoreSentinels

\* C9 amended: the three core-state arrays have one entry per potential of
\* out_potential, that is number_of_atoms * nspin entries, and entries with
\* zero core states carry the sentinel 'no core states' and energy None
\* (never omitted).
C9_CoreArraysPerPotential ==
    HasCoreStates =>
        /\ Len(CoreN) = run.natom * run.nspin
        /\ Len(CoreDescr) = run.natom * run.nspin
        /\ Len(CoreEnergy) = run.natom * run.nspin
        /\ CoreSentinels

C9_Witness ==
    /\ HasCoreStates
    /\ run.nspin = 2
    /\ \E b \in 1..Len(CoreN) : CoreN[b] = 0 /\ CoreEnergy[b] = NoneVal
    /\ \E b \in 1..Len(CoreN) : CoreN[b] > 0

-----------------------------------------------------------------------------
(* combine_imps_wc: exit codes, inputs *)

ERROR_SOMETHING_WENT_WRONG == 999
ERROR_HOST_STRUCTURES_INCONSISTENT == 900
ERROR_INPUT_NOT_SINGLE_IMP_CALC == 800
ERROR_INPLANE_NEIGHBOR_TOO_SMALL == 850
ERROR_INCONSISTENT_NSPIN_VALUES == 950
ERROR_HOST_GF_CALC_FAILED == 700

MaxIndex == 2

\* The optional input ports of the workflow.
OptionalPorts == {"wf_parameters_overwrite", "gf_host_remote",
                  "scf.options", "scf.wf_parameters"}

\* offset_imp2: a Dict with the key 'index', the key 'vector', or both.
OffsetDicts ==
    { [index |-> i] : i \in (0 - 1)..MaxIndex }
    \cup { [vector |-> "rvec"] }
    \cup { [index |-> i, vector |-> "rvec"] : i \in (0 - 1)..MaxIndex }

ProcessClasses == {"KkrimpCalculation", "kkr_imp_wc", "kkr_imp_sub_wc",
                   "combine_imps_wc", "other"}

\* The process behind an impurity output node: `parents` tells whether the
\* node has a creating KkrimpCalculation ("calc"), exactly one incoming
\* 'workflow_info' link ("workflow") or neither ("none"); `converged` is the
\* converged flag of that process' own output; `host` the uuid of its host
\* structure; `ilayer_center` and `nzimp` describe its impurity_info; `nspin`
\* is the spin count found by get_nspin_and_pot.
ImpNodes ==
    { [parents |-> IF c = "KkrimpCalculation" THEN "calc" ELSE "workflow",
       process_class |-> c, converged |-> cv, host |-> h,
       ilayer_center |-> l, nzimp |-> z, nspin |-> n] :
         c \in ProcessClasses, cv \in BOOLEAN, h \in 1..2, l \in 0..1,
         z \in 0..2, n \in 1..2 }
    \cup { [parents |-> "none", process_class |-> "other", converged |-> FALSE,
            host |-> 1, ilayer_center |-> 0, nzimp |-> 1, nspin |-> 1] }

\* An empty Dict.
EmptyDict == [k \in {} |-> 0]

\* The Dicts given as scf.wf_parameters and wf_parameters_overwrite: any of
\* the run option 'jij_run' and the kkr_imp_sub_wc parameter 'nsteps', the
\* kkr_flex_wc parameter 'retrieve_kkrflex' alone or with the other two.
ParamDicts ==
    {EmptyDict}
    \cup { [jij_run |-> j] : j \in BOOLEAN }
    \cup { [nsteps |-> n] : n \in {10, 20} }
    \cup { [jij_run |-> j, nsteps |-> n] : j \in BOOLEAN, n \in {10, 20} }
    \cup { [retrieve_kkrflex |-> r] : r \in BOOLEAN }
    \cup { [retrieve_kkrflex |-> r, jij_run |-> j, nsteps |-> 10] :
              r \in BOOLEAN, j \in BOOLEAN }

-----------------------------------------------------------------------------
(* combine_imps_wc: helpers *)

NoCtx == [k \in {} |-> 0]

\* _check_input_imp: a converged KkrimpCalculation, or a converged workchain
\* of an accepted class.  The class test for combine_imps_wc compares the
\* process class with the running instance and is never true.
check_input_imp(imp) ==
    IF imp.process_class = "KkrimpCalculation"
    THEN imp.converged
    ELSE /\ imp.process_class \in {"kkr_imp_wc", "kkr_imp_sub_wc"}
         /\ imp.converged

\* get_imp_node_from_input: "node" when the process is found and passes the
\* check, "exit_code" when the check fails (the exit code is returned to
\* start as if it were the node), "excepted" when the node has no unique
\* parent (the exit code named there is not declared).
get_imp_node_from_input(imp) ==
    IF imp.parents = "none" THEN "excepted"
    ELSE IF ~check_input_imp(imp) THEN "exit_code"
    ELSE "node"

\* Variant: the host structures are never compared.
host_structures_unchecked(uuid1, uuid2) == FALSE

\* The host-structure test of start: the two uuids differ.
host_structures_inconsistent(uuid1, uuid2) == uuid1 # uuid2

\* Variant: an in-plane offset below 1 is rejected whatever the layers.
inplane_neighbor_too_small_any_layer(index, ilayer1, ilayer2) == index < 1

\* The offset test of create_big_cluster.
inplane_neighbor_too_small(index, ilayer1, ilayer2) ==
    \/ index < 0
    \/ (ilayer1 = ilayer2 /\ index < 1)

\* Variant: any non-empty list of impurity species is accepted.
is_single_imp_nonempty(imp) == imp.nzimp >= 1

\* get_and_check_zimp_list: is_single_imp.
is_single_imp(imp) == imp.nzimp = 1

\* Variant: the host GF is always written out.
need_gf_run_always == TRUE

\* need_gf_run: the host GF is written out unless it is given as input.
need_gf_run == "gf_host_remote" \notin inputs.ports

\* run_gf_writeout, search of the converged host remote: a
\* KkrimpCalculation gives the GF-writeout calculation through its
\* host_Greenfunction_folder, but the kkr_imp_sub_wc child is looked up all
\* the same for every class other than kkr_imp_sub_wc, and a calculation has
\* no such child (first() is None).
find_converged_host_remote(imp) ==
    IF imp.process_class = "kkr_imp_sub_wc" THEN "parent_folder"
    ELSE IF imp.process_class = "kkr_imp_wc" THEN "parent_folder"
    ELSE "excepted"

\* Variant: impurities of any spin count are combined.
nspin_unchecked(nspin1, nspin2) == FALSE

\* The spin-count test of create_big_potential.
nspin_inconsistent(nspin1, nspin2) == nspin1 # nspin2

\* The entries of Dict d with a key in K.
Restrict(d, K) == [k \in (DOMAIN d) \cap K |-> d[k]]

overwrite_params_scf_wins(scf_wf_parameters, wf_parameters_overwrite) ==
    scf_wf_parameters @@ wf_parameters_overwrite

\* update_params, first loop: scf_wf_parameters with every entry of
\* wf_parameters_overwrite set or added.
overwrite_params(scf_wf_parameters, wf_parameters_overwrite) ==
    wf_parameters_overwrite @@ scf_wf_parameters

\* The outcomes of a Jij calculation: whether it finished ok and whether
\* its retrieved folder holds out_Jijmatrix.
JijOutcomes == { [is_finished_ok |-> TRUE, out_Jijmatrix |-> TRUE],
                 [is_finished_ok |-> FALSE, out_Jijmatrix |-> TRUE],
                 [is_finished_ok |-> FALSE, out_Jijmatrix |-> FALSE] }

\* parse_Jij runs through when out_Jijmatrix can be read and both impurity
\* output nodes have an incoming link from a kkr_imp_wc.
parse_Jij_ok(jij_calc) ==
    /\ jij_calc.out_Jijmatrix
    /\ imp1.process_class = "kkr_imp_wc"
    /\ imp2.process_class = "kkr_imp_wc"

\* A step that returns nothing: the outline goes on with the next step.
Goto(step) ==
    /\ w_pc' = step
    /\ UNCHANGED exit_code

\* Variant: a step that returns an exit code is run again.
Terminate_and_go_on(code) ==
    /\ w_pc' = w_pc
    /\ exit_code' = code

\* A step that returns an exit code terminates the workflow.
Terminate(code) ==
    /\ w_pc' = "finished"
    /\ exit_code' = code

\* An uncaught exception in a step ends the workflow as excepted.
Except ==
    /\ w_pc' = "excepted"
    /\ UNCHANGED exit_code

ParserIdle ==
    /\ p_pc = "idle"
    /\ absent = {}
    /\ damage = NoDamage
    /\ run = [nspin |-> 1, newsosol |-> FALSE, natom |-> 1]
    /\ iterations = << >>
    /\ ncore = << >>
    /\ exec_order = << >>
    /\ success = FALSE
    /\ msg_list = << >>
    /\ out_dict = EmptyRecord

-----------------------------------------------------------------------------
(* combine_imps_wc: outline steps *)

\* start: prepare the context and check the inputs.
start ==
    /\ w_pc = "start"
    /\ LET ctx0 == (IF "wf_parameters_overwrite" \in inputs.ports
                    THEN [wf_parameters_overwrite |-> inputs.wf_parameters_overwrite]
                    ELSE NoCtx)
                   @@ [wf_parameters_flex |-> [retrieve_kkrflex |-> FALSE],
                       run_options |-> [jij_run |-> FALSE]]
           r1 == get_imp_node_from_input(imp1)
           r2 == get_imp_node_from_input(imp2)
           ctx1 == [imp1 |-> r1] @@ ctx0
           ctx2 == [imp2 |-> r2] @@ ctx1
       IN
       IF r1 = "excepted"
       THEN /\ ctx' = ctx0
            /\ calls' = Append(calls, "start")
            /\ Except
       ELSE IF r2 = "excepted"
       THEN /\ ctx' = ctx1
            /\ calls' = Append(calls, "start")
            /\ Except
       ELSE IF r1 # "node" \/ r2 # "node"
       THEN \* get_host_structure is handed an exit code instead of a node
            /\ ctx' = ctx2
            /\ calls' = calls \o << "start", "get_host_structure" >>
            /\ Except
       ELSE IF host_structures_inconsistent(imp1.host, imp2.host)
       THEN /\ ctx' = ctx2
            /\ calls' = calls \o << "start", "get_host_structure",
                                    "get_host_structure" >>
            /\ Terminate(ERROR_HOST_STRUCTURES_INCONSISTENT)
       ELSE IF "index" \notin DOMAIN inputs.offset_imp2
       THEN \* self.inputs.offset_imp2['index'] raises KeyError
            /\ ctx' = [host_structure |-> imp1.host] @@ ctx2
            /\ calls' = calls \o << "start", "get_host_structure",
                                    "get_host_structure" >>
            /\ Except
       ELSE /\ ctx' = (IF "scf.wf_parameters" \in inputs.ports
                       THEN [scf_wf_parameters |-> inputs.scf_wf_parameters]
                       ELSE NoCtx)
                      @@ (IF "scf.options" \in inputs.ports
                          THEN [scf_options |-> "input"] ELSE NoCtx)
                      @@ [host_structure |-> imp1.host,
                          i_neighbor_inplane |-> inputs.offset_imp2["index"],
                          scf_kkrimp |-> "input",
                          jij_option |-> FALSE]
                      @@ ctx2
            /\ calls' = calls \o << "start", "get_host_structure",
                                    "get_host_structure" >>
            /\ w_pc' = "create_big_cluster"
            /\ UNCHANGED exit_code
    /\ UNCHANGED <<inputs, imp1, imp2, submitted, outputs>>
    /\ UNCHANGED <<pvars, jvars, dvars, vvars>>

\* create_big_cluster: combine the impurity clusters of the two impurities.
create_big_cluster ==
    /\ w_pc = "create_big_cluster"
    /\ IF "index" \notin DOMAIN inputs.offset_imp2
       THEN /\ calls' = Append(calls, "create_big_cluster")
            /\ Except
            /\ UNCHANGED ctx
       ELSE IF inplane_neighbor_too_small(inputs.offset_imp2["index"],
                                          imp1.ilayer_center, imp2.ilayer_center)
       THEN /\ calls' = Append(calls, "create_big_cluster")
            /\ Terminate(ERROR_INPLANE_NEIGHBOR_TOO_SMALL)
            /\ UNCHANGED ctx
       ELSE IF ~is_single_imp(imp1)
       THEN /\ calls' = calls \o << "create_big_cluster", "get_zimp" >>
            /\ Terminate(ERROR_INPUT_NOT_SINGLE_IMP_CALC)
            /\ UNCHANGED ctx
       ELSE IF ~is_single_imp(imp2)
       THEN /\ calls' = calls \o << "create_big_cluster", "get_zimp", "get_zimp" >>
            /\ Terminate(ERROR_INPUT_NOT_SINGLE_IMP_CALC)
            /\ UNCHANGED ctx
       ELSE /\ calls' = calls \o << "create_big_cluster", "get_zimp", "get_zimp",
                                    "create_combined_imp_info_cf" >>
            /\ ctx' = [imp_info_combined |-> "combined",
                       kickout_info |-> "kickout"] @@ ctx
            /\ w_pc' = "update_params"
            /\ UNCHANGED exit_code
    /\ UNCHANGED <<inputs, imp1, imp2, submitted, outputs>>
    /\ UNCHANGED <<pvars, jvars, dvars, vvars>>

\* update_params: merge wf_parameters_overwrite into scf_wf_parameters and
\* move the keys of wf_parameters_flex and run_options out of it.
update_params ==
    /\ w_pc = "update_params"
    /\ calls' = Append(calls, "update_params")
    /\ IF "scf_wf_parameters" \notin DOMAIN ctx
       THEN \* self.ctx.scf_wf_parameters raises AttributeError
            /\ Except
            /\ UNCHANGED ctx
       ELSE LET scf_wf_parameters ==
                    IF "wf_parameters_overwrite" \in inputs.ports
                    THEN overwrite_params(ctx.scf_wf_parameters,
                                          ctx.wf_parameters_overwrite)
                    ELSE ctx.scf_wf_parameters
                wf_parameters_flex == ctx.wf_parameters_flex
                run_options == ctx.run_options
                key_list == (DOMAIN scf_wf_parameters)
                               \cap (DOMAIN wf_parameters_flex \cup DOMAIN run_options)
            IN
            /\ ctx' = [ctx EXCEPT
                  !.wf_parameters_flex =
                      Restrict(scf_wf_parameters, DOMAIN wf_parameters_flex)
                          @@ wf_parameters_flex,
                  !.run_options =
                      Restrict(scf_wf_parameters, DOMAIN run_options) @@ run_options,
                  !.scf_wf_parameters =
                      Restrict(scf_wf_parameters, (DOMAIN scf_wf_parameters) \ key_list)]
            /\ Goto("need_gf_run")
    /\ UNCHANGED <<inputs, imp1, imp2, submitted, outputs>>
    /\ UNCHANGED <<pvars, jvars, dvars, vvars>>

\* if_(need_gf_run): the outline runs run_gf_writeout or skips it.
if_need_gf_run ==
    /\ w_pc = "need_gf_run"
    /\ calls' = Append(calls, "need_gf_run")
    /\ IF need_gf_run THEN Goto("run_gf_writeout") ELSE Goto("check_host_gf")
    /\ UNCHANGED <<inputs, imp1, imp2, ctx, submitted, outputs>>
    /\ UNCHANGED <<pvars, jvars, dvars, vvars>>

\* run_gf_writeout: submit the kkr_flex_wc and wait for it.
run_gf_writeout ==
    /\ w_pc = "run_gf_writeout"
    /\ calls' = Append(calls, "run_gf_writeout")
    /\ IF find_converged_host_remote(imp1) = "excepted"
       THEN /\ Except
            /\ UNCHANGED <<ctx, submitted>>
       ELSE \E ok \in BOOLEAN :
            /\ submitted' = Append(submitted,
                  [process |-> "kkr_flex_wc",
                   impurity_info |-> ctx.imp_info_combined,
                   wf_parameters |-> ctx.wf_parameters_flex,
                   remote_data |-> find_converged_host_remote(imp1)])
            /\ ctx' = [gf_writeout |-> [is_finished_ok |-> ok,
                                        GF_host_remote |-> "gf_writeout.GF_host_remote"]]
                      @@ ctx
            /\ Goto("check_host_gf")
    /\ UNCHANGED <<inputs, imp1, imp2, outputs>>
    /\ UNCHANGED <<pvars, jvars, dvars, vvars>>

\* Variant: the GF writeout is not looked at.
host_gf_unchecked == TRUE

\* check_host_gf, host_gf_ok: the GF writeout, if it was run, is finished ok.
host_gf_ok == ~(need_gf_run /\ ~ctx.gf_writeout.is_finished_ok)

\* Variant: a failed GF writeout is submitted again.
check_host_gf_retry ==
    /\ w_pc = "check_host_gf"
    /\ calls' = Append(calls, "check_host_gf")
    /\ /\ ctx' = [host_gf_ok |-> host_gf_ok] @@ ctx
       /\ IF ~host_gf_ok
          THEN Goto("run_gf_writeout")
          ELSE Goto("create_big_potential")
    /\ UNCHANGED <<inputs, imp1, imp2, submitted, outputs>>
    /\ UNCHANGED <<pvars, jvars, dvars, vvars>>

\* check_host_gf: the GF writeout, if it was run, has to be finished ok.
check_host_gf ==
    /\ w_pc = "check_host_gf"
    /\ calls' = Append(calls, "check_host_gf")
    /\ /\ ctx' = [host_gf_ok |-> host_gf_ok] @@ ctx
       /\ IF ~host_gf_ok
          THEN Terminate(ERROR_HOST_GF_CALC_FAILED)
          ELSE Goto("create_big_potential")
    /\ UNCHANGED <<inputs, imp1, imp2, submitted, outputs>>
    /\ UNCHANGED <<pvars, jvars, dvars, vvars>>

\* create_big_potential: combine the preconverged potentials.
create_big_potential ==
    /\ w_pc = "create_big_potential"
    /\ IF nspin_inconsistent(imp1.nspin, imp2.nspin)
       THEN /\ calls' = calls \o << "create_big_potential", "get_nspin_and_pot",
                                    "get_nspin_and_pot" >>
            /\ Terminate(ERROR_INCONSISTENT_NSPIN_VALUES)
            /\ UNCHANGED ctx
       ELSE /\ calls' = calls \o << "create_big_potential", "get_nspin_and_pot",
                                    "get_nspin_and_pot", "combine_potentials_cf" >>
            /\ ctx' = [combined_potentials |-> "combined"] @@ ctx
            /\ Goto("run_kkrimp_scf")
    /\ UNCHANGED <<inputs, imp1, imp2, submitted, outputs>>
    /\ UNCHANGED <<pvars, jvars, dvars, vvars>>

\* run_kkrimp_scf: submit the kkr_imp_sub_wc for the combined impurity and
\* wait for it.
run_kkrimp_scf ==
    /\ w_pc = "run_kkrimp_scf"
    /\ IF "scf_options" \notin DOMAIN ctx
       THEN \* self.ctx.scf_options raises AttributeError
            /\ calls' = Append(calls, "run_kkrimp_scf")
            /\ Except
            /\ UNCHANGED <<ctx, submitted>>
       ELSE \E ok \in BOOLEAN :
            /\ calls' = calls \o << "run_kkrimp_scf", "get_ldau_combined" >>
            /\ submitted' = Append(submitted,
                  [process |-> "kkr_imp_sub_wc",
                   impurity_info |-> ctx.imp_info_combined,
                   host_imp_startpot |-> ctx.combined_potentials,
                   remote_data |-> IF "gf_host_remote" \notin inputs.ports
                                   THEN ctx.gf_writeout.GF_host_remote
                                   ELSE "inputs.gf_host_remote",
                   kkrimp |-> ctx.scf_kkrimp,
                   options |-> ctx.scf_options,
                   wf_parameters |-> ctx.scf_wf_parameters])
            /\ ctx' = [kkrimp_scf_sub |-> [is_finished_ok |-> ok]] @@ ctx
            /\ Goto("run_jij")
    /\ UNCHANGED <<inputs, imp1, imp2, outputs>>
    /\ UNCHANGED <<pvars, jvars, dvars, vvars>>

\* if_(run_jij): the outline runs run_jij_step when the scf workflow finished
\* ok and the run option jij_run is set.
run_jij ==
    /\ w_pc = "run_jij"
    /\ calls' = Append(calls, "run_jij")
    /\ IF ~ctx.kkrimp_scf_sub.is_finished_ok
       THEN /\ UNCHANGED ctx
            /\ Goto("return_results")
       ELSE LET jij_option == IF "jij_run" \in DOMAIN ctx.run_options
                              THEN ctx.run_options["jij_run"]
                              ELSE ctx.jij_option
            IN
            /\ ctx' = [ctx EXCEPT !.jij_option = jij_option]
            /\ IF jij_option THEN Goto("run_jij_step") ELSE Goto("return_results")
    /\ UNCHANGED <<inputs, imp1, imp2, submitted, outputs>>
    /\ UNCHANGED <<pvars, jvars, dvars, vvars>>

\* run_jij_step: restart the last calculation of the scf workflow with
\* CALCJIJMAT = 1 and wait for it.
run_jij_step ==
    /\ w_pc = "run_jij_step"
    /\ calls' = Append(calls, "run_jij_step")
    /\ IF ~ctx.kkrimp_scf_sub.is_finished_ok
       THEN /\ Terminate(ERROR_SOMETHING_WENT_WRONG)
            /\ UNCHANGED <<ctx, submitted>>
       ELSE \E jij_calc \in JijOutcomes :
            /\ submitted' = Append(submitted,
                  [process |-> "KkrimpCalculation", CALCJIJMAT |-> 1])
            /\ ctx' = [imp_scf_combined_jij |-> jij_calc] @@ ctx
            /\ Goto("return_results")
    /\ UNCHANGED <<inputs, imp1, imp2, outputs>>
    /\ UNCHANGED <<pvars, jvars, dvars, vvars>>

\* return_results: check the scf workflow and register the outputs.
return_results ==
    /\ w_pc = "return_results"
    /\ IF ~ctx.kkrimp_scf_sub.is_finished_ok
       THEN /\ calls' = Append(calls, "return_results")
            /\ Terminate(ERROR_SOMETHING_WENT_WRONG)
            /\ UNCHANGED outputs
       ELSE IF ctx.jij_option /\ ~parse_Jij_ok(ctx.imp_scf_combined_jij)
       THEN \* parse_Jij raises, before the first self.out
            /\ calls' = calls \o << "return_results", "parse_Jij" >>
            /\ Except
            /\ UNCHANGED outputs
       ELSE /\ calls' = calls \o << "return_results" >>
                          \o (IF ctx.jij_option THEN << "parse_Jij" >> ELSE << >>)
                          \o << "create_out_dict_node" >>
            /\ outputs' =
                  (IF "gf_host_remote" \notin inputs.ports
                   THEN {"remote_data_gf"} ELSE {})
                  \cup {"workflow_info", "last_potential", "last_calc_remote",
                        "last_calc_output_parameters"}
                  \cup (IF ctx.jij_option THEN {"JijData", "JijInfo"} ELSE {})
            /\ w_pc' = "finished"
            /\ UNCHANGED exit_code
    /\ UNCHANGED <<inputs, imp1, imp2, ctx, submitted>>
    /\ UNCHANGED <<pvars, jvars, dvars, vvars>>

\* The inputs with which start runs through.
PassesStart(offset_imp2, n1, n2) ==
    /\ get_imp_node_from_input(n1) = "node"
    /\ get_imp_node_from_input(n2) = "node"
    /\ ~host_structures_inconsistent(n1.host, n2.host)
    /\ "index" \in DOMAIN offset_imp2

\* The inputs with which create_big_cluster runs through as well.
PassesCluster(offset_imp2, n1, n2) ==
    /\ PassesStart(offset_imp2, n1, n2)
    /\ ~inplane_neighbor_too_small(offset_imp2["index"],
                                   n1.ilayer_center, n2.ilayer_center)
    /\ is_single_imp(n1)
    /\ is_single_imp(n2)

\* The offset with which the Dict contents and the spin counts are varied.
ReferenceOffset(offset_imp2, n1, n2) ==
    /\ offset_imp2 = [index |-> 1]
    /\ n1.ilayer_center = 0
    /\ n2.ilayer_center = 0

\* The inputs of a run.  Every value of every input occurs; what the
\* workflow does not read before it stops is not varied: a node that start
\* rejects, the impurity_info when start fails, the Dict contents and the
\* spin counts when create_big_cluster fails.  The Dict contents and the spin
\* counts are varied for the reference offset.  The impurities have no LDA+U
\* settings and host_gf.kkr is given.
InitCombine ==
    /\ ParserIdle
    /\ JijIdle
    /\ DosIdle
    /\ VoroIdle
    /\ w_pc = "start"
    /\ \E n1 \in ImpNodes, n2 \in ImpNodes, offset_imp2 \in OffsetDicts :
          \* the host structure is compared between the two: fix impurity 1's
          /\ n1.host = 1
          /\ \A n \in {n1, n2} :
                get_imp_node_from_input(n) # "node" =>
                    n.host = 1 /\ n.ilayer_center = 0 /\ n.nzimp = 1
          /\ ~PassesStart(offset_imp2, n1, n2) =>
                \A n \in {n1, n2} : n.ilayer_center = 0 /\ n.nzimp = 1
          /\ ~(PassesCluster(offset_imp2, n1, n2)
                 /\ ReferenceOffset(offset_imp2, n1, n2)) =>
                n1.nspin = 1 /\ n2.nspin = 1
          /\ imp1 = n1
          /\ imp2 = n2
          /\ \E ports \in SUBSET OptionalPorts :
             LET varied == /\ PassesCluster(offset_imp2, n1, n2)
                           /\ ReferenceOffset(offset_imp2, n1, n2)
             IN
             \E scf_wf_parameters \in
                    (IF varied /\ "scf.wf_parameters" \in ports
                     THEN ParamDicts ELSE {EmptyDict}),
                wf_parameters_overwrite \in
                    (IF varied /\ "wf_parameters_overwrite" \in ports
                     THEN ParamDicts ELSE {EmptyDict}) :
                inputs = [offset_imp2 |-> offset_imp2, ports |-> ports,
                          scf_wf_parameters |-> scf_wf_parameters,
                          wf_parameters_overwrite |-> wf_parameters_overwrite]
    /\ ctx = NoCtx
    /\ exit_code = 0
    /\ calls = << >>
    /\ submitted = << >>
    /\ outputs = {}

NextCombine ==
    \/ start
    \/ create_big_cluster
    \/ update_params
    \/ if_need_gf_run
    \/ run_gf_writeout
    \/ check_host_gf
    \/ create_big_potential
    \/ run_kkrimp_scf
    \/ run_jij
    \/ run_jij_step
    \/ return_results

SpecCombine == InitCombine /\ [][NextCombine]_vars

-----------------------------------------------------------------------------
(* Properties of combine_imps_wc *)

Ran(step) == step \in Range(calls)

\* C10: create_big_cluster ends the workflow with
\* ERROR_INPLANE_NEIGHBOR_TOO_SMALL (850) exactly when the offset index is
\* negative, or is 0 while both impurities have the same ilayer_center; the
\* rejection comes before the single-impurity check and before
\* create_combined_imp_info_cf.
C10_InplaneNeighborTooSmall ==
    Ran("create_big_cluster") =>
        LET index == inputs.offset_imp2["index"] IN
        /\ exit_code = ERROR_INPLANE_NEIGHBOR_TOO_SMALL
              <=> (index < 0 \/ (index = 0 /\ imp1.ilayer_center = imp2.ilayer_center))
        /\ exit_code = ERROR_INPLANE_NEIGHBOR_TOO_SMALL =>
              /\ w_pc = "finished"
              /\ ~Ran("get_zimp")
              /\ ~Ran("create_combined_imp_info_cf")
              /\ "imp_info_combined" \notin DOMAIN ctx

C10_Witness ==
    /\ Ran("create_big_cluster")
    /\ exit_code = ERROR_INPLANE_NEIGHBOR_TOO_SMALL
    /\ inputs.offset_imp2["index"] = 0
    /\ imp1.ilayer_center = imp2.ilayer_center
    /\ imp1.nzimp # 1

-----------------------------------------------------------------------------
(* Properties of combine_imps_wc: inputs and validation *)

Terminal == w_pc \in {"finished", "excepted"}

OutlineSteps == {"start", "create_big_cluster", "update_params", "need_gf_run",
                 "run_gf_writeout", "check_host_gf", "create_big_potential",
                 "run_kkrimp_scf", "run_jij", "run_jij_step", "return_results"}

\* The outline step executed last.
LastStep ==
    LET steps == SelectSeq(calls, LAMBDA c : c \in OutlineSteps)
    IN steps[Len(steps)]

\* The workflow ended with an exception raised in `step`.
StepFailed(step) == w_pc = "excepted" /\ LastStep = step

Submitted(process) == \E i \in 1..Len(submitted) : submitted[i].process = process

AcceptedKinds == {"KkrimpCalculation", "kkr_imp_wc", "kkr_imp_sub_wc",
                  "combine_imps_wc"}

\* Both impurity nodes are converged inputs of an accepted kind.
ConvergedInputs ==
    \A imp \in {imp1, imp2} :
        /\ imp.parents # "none"
        /\ imp.process_class \in AcceptedKinds
        /\ imp.converged

\* C11: a run whose offset_imp2 holds only the key 'vector', with otherwise
\* valid inputs (converged single-impurity inputs with the same host), passes
\* start and create_big_cluster and reaches create_combined_imp_info_cf
\* without error.
C11_VectorOnlyOffset ==
    ( /\ Ran("start")
      /\ DOMAIN inputs.offset_imp2 = {"vector"}
      /\ ConvergedInputs
      /\ imp1.process_class # "combine_imps_wc"
      /\ imp2.process_class # "combine_imps_wc"
      /\ imp1.host = imp2.host
      /\ imp1.nzimp = 1 /\ imp2.nzimp = 1 )
    => /\ ~StepFailed("start")
       /\ ~StepFailed("create_big_cluster")
       /\ Ran("create_big_cluster") => Ran("create_combined_imp_info_cf")

\* C12: create_big_cluster ends the workflow with
\* ERROR_INPUT_NOT_SINGLE_IMP_CALC (800) exactly when it runs, the offset
\* passes the in-plane test and impurity 1 or impurity 2 does not have
\* exactly one impurity species; then no combined cluster and no kickout
\* record is in the context and nothing is submitted.
C12_NotSingleImp ==
    /\ exit_code = ERROR_INPUT_NOT_SINGLE_IMP_CALC
          <=> /\ Ran("create_big_cluster")
              /\ inputs.offset_imp2["index"] >= 0
              /\ ~(imp1.ilayer_center = imp2.ilayer_center
                     /\ inputs.offset_imp2["index"] = 0)
              /\ (imp1.nzimp # 1 \/ imp2.nzimp # 1)
    /\ exit_code = ERROR_INPUT_NOT_SINGLE_IMP_CALC =>
          /\ w_pc = "finished"
          /\ ~Ran("create_combined_imp_info_cf")
          /\ "imp_info_combined" \notin DOMAIN ctx
          /\ "kickout_info" \notin DOMAIN ctx
          /\ ~Ran("update_params")
          /\ submitted = << >>
          /\ outputs = {}

C12_Witness ==
    /\ exit_code = ERROR_INPUT_NOT_SINGLE_IMP_CALC
    /\ w_pc = "finished"
    /\ imp1.nzimp = 1
    /\ imp2.nzimp = 2

\* C13: create_big_potential ends the workflow with
\* ERROR_INCONSISTENT_NSPIN_VALUES (950) exactly when it runs and the two
\* impurities have different nspin; then combine_potentials_cf was not
\* called, no combined potential is in the context, the scf workflow is not
\* submitted, the step ran once and no output is registered.
C13_InconsistentNspin ==
    /\ exit_code = ERROR_INCONSISTENT_NSPIN_VALUES
          <=> (Ran("create_big_potential") /\ imp1.nspin # imp2.nspin)
    /\ exit_code = ERROR_INCONSISTENT_NSPIN_VALUES =>
          /\ w_pc = "finished"
          /\ ~Ran("combine_potentials_cf")
          /\ "combined_potentials" \notin DOMAIN ctx
          /\ ~Ran("run_kkrimp_scf")
          /\ ~Submitted("kkr_imp_sub_wc")
          /\ Cardinality({i \in 1..Len(calls) : calls[i] = "create_big_potential"}) = 1
          /\ outputs = {}

C13_Witness ==
    /\ exit_code = ERROR_INCONSISTENT_NSPIN_VALUES
    /\ w_pc = "finished"
    /\ imp1.nspin = 2
    /\ imp2.nspin = 1

\* C14: start ends the workflow with ERROR_HOST_STRUCTURES_INCONSISTENT (900)
\* exactly when both impurity nodes pass the input check and their host
\* structures have different uuids; then no later outline step is executed.
C14_HostStructuresInconsistent ==
    /\ exit_code = ERROR_HOST_STRUCTURES_INCONSISTENT
          <=> /\ Ran("start")
              /\ get_imp_node_from_input(imp1) = "node"
              /\ get_imp_node_from_input(imp2) = "node"
              /\ imp1.host # imp2.host
    /\ exit_code = ERROR_HOST_STRUCTURES_INCONSISTENT =>
          /\ w_pc = "finished"
          /\ Range(calls) = {"start", "get_host_structure"}
          /\ "host_structure" \notin DOMAIN ctx
          /\ submitted = << >>
          /\ outputs = {}

C14_Witness ==
    /\ exit_code = ERROR_HOST_STRUCTURES_INCONSISTENT
    /\ w_pc = "finished"
    /\ imp1.host = 1
    /\ imp2.host = 2

\* C15: when an input impurity node fails the input check (parent not
\* converged, of the wrong class, or no unique parent), start ends the
\* workflow with an exit code and no later outline step is executed.
C15_RejectedInputTerminates ==
    ( /\ Ran("start")
      /\ \E imp \in {imp1, imp2} :
            \/ imp.parents = "none"
            \/ imp.process_class \notin AcceptedKinds
            \/ ~imp.converged )
    => /\ w_pc = "finished"
       /\ exit_code # 0
       /\ ~Ran("create_big_cluster")

\* C16: _check_input_imp accepts exactly the converged inputs of the four
\* accepted kinds (KkrimpCalculation, kkr_imp_wc, kkr_imp_sub_wc,
\* combine_imps_wc).
C16_CheckInputImp ==
    Ran("start") =>
        \A imp \in {imp1, imp2} :
            imp.parents # "none" =>
                (check_input_imp(imp)
                    <=> (imp.process_class \in AcceptedKinds /\ imp.converged))

-----------------------------------------------------------------------------
(* Properties of combine_imps_wc: outputs and sub-processes *)

RequiredOutputs == {"workflow_info", "last_calc_output_parameters",
                    "last_potential", "last_calc_remote"}

\* C17: in every terminal state either the workflow finished without exit
\* code and the four required outputs are registered, or it terminated with
\* a non-zero exit code and no output at all is registered.
C17_AllOrNothing ==
    Terminal =>
        \/ /\ w_pc = "finished"
           /\ exit_code = 0
           /\ RequiredOutputs \subseteq outputs
        \/ /\ w_pc = "finished"
           /\ exit_code # 0
           /\ outputs = {}

\* No state holds a part of the outputs: outputs are registered only by a
\* run that finishes without exit code, and then all required ones are.
NoPartialOutputs ==
    outputs # {} => /\ w_pc = "finished"
                    /\ exit_code = 0
                    /\ RequiredOutputs \subseteq outputs

\* C18: the kkr_flex_wc is submitted only when gf_host_remote is not among
\* the inputs, and every run that gets to check_host_gf has submitted it
\* exactly when gf_host_remote is not given; when gf_host_remote is given the
\* scf workflow gets that node as remote_data (and the output of the writeout
\* otherwise); remote_data_gf is registered only in runs that submitted the
\* kkr_flex_wc.
C18_GfWriteoutOnlyIfNeeded ==
    /\ Submitted("kkr_flex_wc") => "gf_host_remote" \notin inputs.ports
    /\ Ran("check_host_gf") =>
          (Submitted("kkr_flex_wc") <=> "gf_host_remote" \notin inputs.ports)
    /\ \A i \in 1..Len(submitted) :
          submitted[i].process = "kkr_imp_sub_wc" =>
              submitted[i].remote_data =
                  (IF "gf_host_remote" \in inputs.ports
                   THEN "inputs.gf_host_remote"
                   ELSE "gf_writeout.GF_host_remote")
    /\ "remote_data_gf" \in outputs => Submitted("kkr_flex_wc")
    /\ (w_pc = "finished" /\ exit_code = 0) =>
          ("remote_data_gf" \in outputs <=> Submitted("kkr_flex_wc"))

C18_Witness ==
    /\ w_pc = "finished"
    /\ exit_code = 0
    /\ "gf_host_remote" \in inputs.ports
    /\ Submitted("kkr_imp_sub_wc")
    /\ ~Submitted("kkr_flex_wc")
    /\ "remote_data_gf" \notin outputs

\* C19: when no gf_host_remote is given, run_gf_writeout submits the
\* kkr_flex_wc for every accepted kind of impurity 1 (kkr_imp_wc,
\* kkr_imp_sub_wc, KkrimpCalculation).
C19_GfWriteoutForEveryKind ==
    Ran("run_gf_writeout") =>
        /\ ~StepFailed("run_gf_writeout")
        /\ Submitted("kkr_flex_wc")

\* C20: scf.options and scf.wf_parameters are optional: with valid impurity
\* inputs, update_params and run_kkrimp_scf run without error and the scf
\* workflow is submitted, whether or not the two are given.
C20_ScfInputsOptional ==
    /\ ~StepFailed("update_params")
    /\ ~StepFailed("run_kkrimp_scf")
    /\ Ran("run_kkrimp_scf") => Submitted("kkr_imp_sub_wc")

-----------------------------------------------------------------------------
(* Properties of combine_imps_wc: Jij step, order of the steps *)

\* The run option jij_run as the inputs give it: wf_parameters_overwrite
\* beats scf.wf_parameters beats the default False.
EffectiveJijRun ==
    IF "wf_parameters_overwrite" \in inputs.ports
          /\ "jij_run" \in DOMAIN inputs.wf_parameters_overwrite
    THEN inputs.wf_parameters_overwrite["jij_run"]
    ELSE IF "scf.wf_parameters" \in inputs.ports
          /\ "jij_run" \in DOMAIN inputs.scf_wf_parameters
    THEN inputs.scf_wf_parameters["jij_run"]
    ELSE FALSE

ScfFinishedOk ==
    /\ "kkrimp_scf_sub" \in DOMAIN ctx
    /\ ctx.kkrimp_scf_sub.is_finished_ok

\* The Jij calculation is submitted exactly in the runs in which the scf
\* workflow finished ok and jij_run is effectively true.
JijSubmittedIffRunOption ==
    /\ Submitted("KkrimpCalculation") => (EffectiveJijRun /\ ScfFinishedOk)
    /\ (Terminal /\ ScfFinishedOk /\ EffectiveJijRun) => Submitted("KkrimpCalculation")

\* C21: in a run that has ended, the Jij calculation is submitted, and
\* JijData and JijInfo are registered, if and only if jij_run is effectively
\* true and the scf workflow finished ok; with default parameters there is
\* no Jij calculation and neither output.
C21_JijIffRunOption ==
    /\ JijSubmittedIffRunOption
    /\ Terminal =>
          /\ "JijData" \in outputs <=> (EffectiveJijRun /\ ScfFinishedOk)
          /\ "JijInfo" \in outputs <=> (EffectiveJijRun /\ ScfFinishedOk)
    /\ ~EffectiveJijRun =>
          /\ ~Submitted("KkrimpCalculation")
          /\ outputs \cap {"JijData", "JijInfo"} = {}

\* The order of the outline: from each position, the positions that follow.
OutlineEdges ==
    { <<"start", "create_big_cluster">>,
      <<"create_big_cluster", "update_params">>,
      <<"update_params", "need_gf_run">>,
      <<"need_gf_run", "run_gf_writeout">>,
      <<"need_gf_run", "check_host_gf">>,
      <<"run_gf_writeout", "check_host_gf">>,
      <<"check_host_gf", "create_big_potential">>,
      <<"create_big_potential", "run_kkrimp_scf">>,
      <<"run_kkrimp_scf", "run_jij">>,
      <<"run_jij", "run_jij_step">>,
      <<"run_jij", "return_results">>,
      <<"run_jij_step", "return_results">>,
      <<"return_results", "finished">> }

\* C29: the steps are visited only in the order start, create_big_cluster,
\* update_params, (run_gf_writeout,) check_host_gf, create_big_potential,
\* run_kkrimp_scf, (run_jij_step,) return_results; a step that returns an
\* exit code ends the workflow, and after an exit code no step runs and
\* nothing is submitted.
C29_OutlineOrder ==
    [][ /\ exit_code = 0
        /\ ~Terminal
        /\ \/ <<w_pc, w_pc'>> \in OutlineEdges
           \/ w_pc' = "finished" /\ exit_code' # 0
           \/ w_pc' = "excepted" /\ exit_code' = 0
        /\ exit_code' # 0 => (w_pc' = "finished" /\ submitted' = submitted)
      ]_vars

C29_Witness ==
    /\ w_pc = "finished"
    /\ exit_code = 0
    /\ SelectSeq(calls, LAMBDA c : c \in OutlineSteps) =
          << "start", "create_big_cluster", "update_params", "need_gf_run",
             "run_gf_writeout", "check_host_gf", "create_big_potential",
             "run_kkrimp_scf", "run_jij", "run_jij_step", "return_results" >>

\* C30: check_host_gf ends the workflow with ERROR_HOST_GF_CALC_FAILED (700)
\* exactly when the kkr_flex_wc was submitted by this run and did not finish
\* ok; then the scf workflow is not submitted; with gf_host_remote among the
\* inputs this exit code is never returned.
C30_HostGfFailed ==
    /\ exit_code = ERROR_HOST_GF_CALC_FAILED
          <=> /\ Ran("check_host_gf")
              /\ Submitted("kkr_flex_wc")
              /\ ~ctx.gf_writeout.is_finished_ok
    /\ exit_code = ERROR_HOST_GF_CALC_FAILED =>
          /\ w_pc = "finished"
          /\ LastStep = "check_host_gf"
          /\ ~Submitted("kkr_imp_sub_wc")
          /\ outputs = {}
    /\ "gf_host_remote" \in inputs.ports => exit_code # ERROR_HOST_GF_CALC_FAILED

C30_Witness ==
    /\ exit_code = ERROR_HOST_GF_CALC_FAILED
    /\ w_pc = "finished"
    /\ Submitted("kkr_flex_wc")
    /\ ~ctx.gf_writeout.is_finished_ok

-----------------------------------------------------------------------------
(* Properties of combine_imps_wc: update_params, submissions *)

\* wf_parameters_overwrite and scf.wf_parameters as the inputs give them.
GivenOverwrite ==
    IF "wf_parameters_overwrite" \in inputs.ports
    THEN inputs.wf_parameters_overwrite ELSE EmptyDict

GivenScfParameters == inputs.scf_wf_parameters

\* The keys that update_params moves out of scf_wf_parameters.
MovedKeys == {"jij_run", "retrieve_kkrflex"}

\* The value of a moved key as the inputs give it: wf_parameters_overwrite
\* beats scf.wf_parameters beats the default False.
EffectiveOption(key) ==
    IF key \in DOMAIN GivenOverwrite THEN GivenOverwrite[key]
    ELSE IF key \in DOMAIN GivenScfParameters THEN GivenScfParameters[key]
    ELSE FALSE

UpdateParamsDone == Ran("update_params") /\ ~StepFailed("update_params")

\* C31: after update_params every key of wf_parameters_overwrite other than
\* 'jij_run' and 'retrieve_kkrflex' is in ctx.scf_wf_parameters with the
\* overwrite value; the two keys are not in ctx.scf_wf_parameters, their
\* effective values are in ctx.run_options and ctx.wf_parameters_flex; the
\* other keys of scf.wf_parameters are unchanged, and no key is added.
C31_UpdateParams ==
    UpdateParamsDone =>
        /\ \A k \in (DOMAIN GivenOverwrite) \ MovedKeys :
              /\ k \in DOMAIN ctx.scf_wf_parameters
              /\ ctx.scf_wf_parameters[k] = GivenOverwrite[k]
        /\ MovedKeys \cap DOMAIN ctx.scf_wf_parameters = {}
        /\ ctx.run_options = [jij_run |-> EffectiveOption("jij_run")]
        /\ ctx.wf_parameters_flex =
              [retrieve_kkrflex |-> EffectiveOption("retrieve_kkrflex")]
        /\ \A k \in (DOMAIN GivenScfParameters)
                        \ (MovedKeys \cup DOMAIN GivenOverwrite) :
              /\ k \in DOMAIN ctx.scf_wf_parameters
              /\ ctx.scf_wf_parameters[k] = GivenScfParameters[k]
        /\ DOMAIN ctx.scf_wf_parameters =
              (DOMAIN GivenScfParameters \cup DOMAIN GivenOverwrite) \ MovedKeys

C31_Witness ==
    /\ UpdateParamsDone
    /\ {"nsteps", "jij_run", "retrieve_kkrflex"} \subseteq DOMAIN GivenOverwrite
    /\ {"nsteps", "jij_run"} \subseteq DOMAIN GivenScfParameters
    /\ GivenOverwrite["nsteps"] # GivenScfParameters["nsteps"]
    /\ GivenOverwrite["jij_run"] # GivenScfParameters["jij_run"]
    /\ GivenOverwrite["retrieve_kkrflex"]
    /\ ctx.scf_wf_parameters = [nsteps |-> GivenOverwrite["nsteps"]]

\* The sub-processes the workflow submits.
SubProcesses == {"kkr_flex_wc", "kkr_imp_sub_wc", "KkrimpCalculation"}

Submissions(process) ==
    {i \in 1..Len(submitted) : submitted[i].process = process}

StepRuns(step) == {i \in 1..Len(calls) : calls[i] = step}

\* C32: within one run each sub-process is submitted at most once (one GF
\* writeout, one scf workflow, one Jij calculation), also when it failed:
\* every submitting step runs at most once.
C32_SubmittedAtMostOnce ==
    /\ \A process \in SubProcesses : Cardinality(Submissions(process)) <= 1
    /\ \A i \in 1..Len(submitted) : submitted[i].process \in SubProcesses
    /\ \A step \in {"run_gf_writeout", "run_kkrimp_scf", "run_jij_step"} :
          Cardinality(StepRuns(step)) <= 1

C32_Witness ==
    /\ Terminal
    /\ Cardinality(Submissions("kkr_flex_wc")) = 1
    /\ Cardinality(Submissions("kkr_imp_sub_wc")) = 1
    /\ Cardinality(Submissions("KkrimpCalculation")) = 1
    /\ ~ctx.imp_scf_combined_jij.is_finished_ok

-----------------------------------------------------------------------------
(* parse_Jij: the calcfunction that turns out_Jijmatrix into JijData *)

\* Largest cluster of the Jij calculation.
MaxJijAtoms == 3

\* get_Ry2eV() * 1000, rounded to 1 meV per Rydberg.
Ry2meV == 13606

\* The three calculations with rotated moments, and the tensor components.
JijIters == 0..2
JijComps == 0..2

\* Nuclear charges of the cluster sites (V, Cr impurities in a Bi host) and
\* of the two impurities.
ClusterZ == {23, 24, 83}
ImpurityZ == {23, 24}

\* pos[a][0..2]: the cluster site a (zero-based) of imp_cls.
imp_cls_row(a, Z) == << a, a * a, 0 - a, a + 1, Z >>

\* Row of jijdata that holds jij_reshape[iiter, iatom, jatom, k, :] of the
\* C-ordered reshape (3, natom, natom, 3, 3) of a (9 natom^2, 3) array.
jij_row(natom, iiter, iatom, jatom, k) ==
    ((iiter * natom + iatom) * natom + jatom) * 3 + k + 1

\* Inputs of the model: multiples of 6 Ry-units, so that the halving of zz
\* and the third of the trace are exact.
\* One component of one iteration is non-zero, for every ordered atom pair
\* (also for i >= j), with a coupling that differs between the pairs.
OneHot(natom, it, k, l, s) ==
    [r \in 1..(9 * natom * natom) |->
        [c \in 1..3 |->
            LET q == (r - 1) \div 3
                jatom == q % natom
                iatom == (q \div natom) % natom
                iiter == q \div (natom * natom)
            IN  IF iiter = it /\ (r - 1) % 3 = k /\ c - 1 = l
                THEN s * 6 * (1 + iatom * natom + jatom)
                ELSE 0]]

\* Every entry is non-zero and differs from every other entry.
Dense(natom, s) ==
    [r \in 1..(9 * natom * natom) |->
        [c \in 1..3 |->
            LET f == (r - 1) * 3 + c
            IN  s * 6 * f * (IF f % 2 = 0 THEN 1 ELSE -1)]]

JijInputs(natom) ==
    { OneHot(natom, it, k, l, s) :
          it \in JijIters, k \in JijComps, l \in JijComps, s \in {-1, 1} }
    \cup { Dense(natom, s) : s \in {-1, 1} }

\* line 720: natom = int(sqrt(jijdata.shape[0]/3/3))
natom_of(data) ==
    CHOOSE n \in 0..Len(data) :
        n * n <= Len(data) \div 9 /\ (n + 1) * (n + 1) > Len(data) \div 9

\* line 723: jij_reshape[iiter, iatom, jatom, k, l]
jij_reshape(data, iiter, iatom, jatom, k, l) ==
    data[jij_row(natom_of(data), iiter, iatom, jatom, k)][l + 1]

\* line 726: np.zeros((natom, natom, 3, 3))
zeros(natom) ==
    [i \in 0..(natom - 1) |-> [j \in 0..(natom - 1) |->
        [k \in JijComps |-> [l \in JijComps |-> 0]]]]

\* lines 727-729: the (iatom, jatom, iiter) in the order of the three loops.
combine_loop(natom) ==
    LET all == [x \in 1..(natom * natom * 3) |->
                   << (x - 1) \div (3 * natom),
                      ((x - 1) \div 3) % natom,
                      (x - 1) % 3 >>]
    IN  SelectSeq(all, LAMBDA t : t[1] < t[2])

combine_step_zz_last(acc, data, iatom, jatom, iiter) ==
    LET R(k, l) == jij_reshape(data, iiter, iatom, jatom, k, l)
    IN  IF iiter = 0
        THEN [acc EXCEPT ![iatom][jatom][0][0] = R(0, 0),
                         ![iatom][jatom][0][1] = R(0, 1),
                         ![iatom][jatom][1][0] = R(1, 0),
                         ![iatom][jatom][1][1] = R(1, 1)]
        ELSE IF iiter = 1
        THEN [acc EXCEPT ![iatom][jatom][1][2] = R(1, 2),
                         ![iatom][jatom][2][1] = R(2, 1),
                         ![iatom][jatom][2][2] = R(2, 2)]
        ELSE [acc EXCEPT ![iatom][jatom][0][2] = R(0, 2),
                         ![iatom][jatom][2][0] = R(2, 0),
                         ![iatom][jatom][2][2] = R(2, 2)]

\* lines 730-749: the body of the loops for one (iatom, jatom, iiter).
combine_step(acc, data, iatom, jatom, iiter) ==
    LET R(k, l) == jij_reshape(data, iiter, iatom, jatom, k, l)
    IN  IF iiter = 0
        THEN [acc EXCEPT ![iatom][jatom][0][0] = R(0, 0),
                         ![iatom][jatom][0][1] = R(0, 1),
                         ![iatom][jatom][1][0] = R(1, 0),
                         ![iatom][jatom][1][1] = R(1, 1)]
        ELSE IF iiter = 1
        THEN [acc EXCEPT ![iatom][jatom][1][2] = R(1, 2),
                         ![iatom][jatom][2][1] = R(2, 1),
                         ![iatom][jatom][2][2] = R(2, 2)]
        ELSE LET a == [acc EXCEPT ![iatom][jatom][0][2] = R(0, 2),
                                  ![iatom][jatom][2][0] = R(2, 0)]
                 b == [a EXCEPT ![iatom][jatom][2][2] = @ + R(2, 2)]
             IN  [b EXCEPT ![iatom][jatom][2][2] = @ \div 2]

RECURSIVE combine_iterations(_, _, _)
combine_iterations(acc, data, loop) ==
    IF loop = << >>
    THEN acc
    ELSE combine_iterations(
             combine_step(acc, data, loop[1][1], loop[1][2], loop[1][3]),
             data, Tail(loop))

\* line 752: jij_combined_iter *= -1.*Ry2eV*1000
to_meV_unflipped(x) == x * Ry2meV

to_meV(x) == x * (-1) * Ry2meV

convert_units(T) ==
    [i \in DOMAIN T |-> [j \in DOMAIN T[i] |->
        [k \in JijComps |-> [l \in JijComps |-> to_meV(T[i][j][k][l])]]]]

\* line 754
jij_trace(T, iatom, jatom) ==
    (T[iatom][jatom][0][0] + T[iatom][jatom][1][1] + T[iatom][jatom][2][2])
        \div 3

\* line 755: Dij_vec[c, iatom, jatom] for c = 0, 1, 2
Dij_vec_swapped(T, iatom, jatom) ==
    << T[iatom][jatom][1][2] - T[iatom][jatom][2][1],
       T[iatom][jatom][0][2] - T[iatom][jatom][2][0],
       T[iatom][jatom][0][1] - T[iatom][jatom][1][0] >>

Dij_vec(T, iatom, jatom) ==
    << T[iatom][jatom][1][2] - T[iatom][jatom][2][1],
       T[iatom][jatom][2][0] - T[iatom][jatom][0][2],
       T[iatom][jatom][0][1] - T[iatom][jatom][1][0] >>

\* np.where(z == Z)[0]: the zero-based sites with charge Z, ascending.
where_z(cls, Z) ==
    LET sites == [a \in 1..Len(cls) |-> a - 1]
    IN  SelectSeq(sites, LAMBDA a : cls[a + 1][5] = Z)

\* line 715
Vpos_imp1_only(cls, z12) == where_z(cls, z12[1])

Vpos(cls, z12) == where_z(cls, z12[1]) \o where_z(cls, z12[2])

\* np.sqrt(Dx**2 + Dy**2 + Dz**2), kept symbolic: the squares of the
\* components, which do not fit the integers of the model checker, are
\* represented by the magnitudes of the components in ascending order.
Abs(x) == IF x < 0 THEN 0 - x ELSE x

Sort3(a, b, c) ==
    LET lo == IF a <= b /\ a <= c THEN a ELSE IF b <= c THEN b ELSE c
        hi == IF a >= b /\ a >= c THEN a ELSE IF b >= c THEN b ELSE c
    IN  << lo, a + b + c - lo - hi, hi >>

sqrt_sum_of_squares(Dx, Dy, Dz) ==
    [tag |-> "sqrt_sum_of_squares", of |-> Sort3(Abs(Dx), Abs(Dy), Abs(Dz))]

\* D/J of two floats, kept symbolic.
Quotient(D, J) == [tag |-> "quotient", num |-> D, den |-> J]

\* lines 761-769: the pairs for which a line and a row are written.
emitted_pairs(natom, vpos) ==
    LET all == [x \in 1..(natom * natom) |->
                   << (x - 1) \div natom, (x - 1) % natom >>]
    IN  SelectSeq(all, LAMBDA t : /\ t[1] < t[2]
                                  /\ t[1] # t[2]
                                  /\ t[1] \in Range(vpos)
                                  /\ t[2] \in Range(vpos))

\* line 767: one line of out_txt, as the tuple of its five fields.
out_txt_line(T, iatom, jatom) ==
    LET J == jij_trace(T, iatom, jatom)
        Dv == Dij_vec(T, iatom, jatom)
        D == sqrt_sum_of_squares(Dv[1], Dv[2], Dv[3])
    IN  << iatom, jatom, J, D, Quotient(D, J) >>

\* lines 768-769: one row of plotdata.
plotdata_row(T, cls, iatom, jatom) ==
    LET J == jij_trace(T, iatom, jatom)
        Dv == Dij_vec(T, iatom, jatom)
        D == sqrt_sum_of_squares(Dv[1], Dv[2], Dv[3])
        rdiff == [c \in 1..5 |-> cls[jatom + 1][c] - cls[iatom + 1][c]]
    IN  << rdiff[1], rdiff[2], rdiff[3], J, D, Dv[1], Dv[2], Dv[3] >>

\* The whole calcfunction, for a retrieved folder that holds out_Jijmatrix
\* and impurity nodes that are outputs of kkr_imp_wc.
parse_Jij ==
    /\ j_pc = "ready"
    /\ LET natom == natom_of(jijdata)
           cls == impurity_info.imp_cls
           T == convert_units(
                    combine_iterations(zeros(natom), jijdata,
                                       combine_loop(natom)))
           pairs == emitted_pairs(natom, Vpos(cls, imp_z))
       IN  /\ jij_combined_iter' = T
           /\ jij_parsed_dict' =
                 [Jijdata |-> [p \in 1..Len(pairs) |->
                                  plotdata_row(T, cls, pairs[p][1], pairs[p][2])],
                  text |-> [p \in 1..Len(pairs) |->
                                  out_txt_line(T, pairs[p][1], pairs[p][2])]]
    /\ j_pc' = "returned"
    /\ UNCHANGED <<jijdata, impurity_info, imp_z>>
    /\ UNCHANGED <<pvars, wvars, dvars, vvars>>

\* The Jij calculation of a cluster of 1..MaxJijAtoms sites with any charges;
\* the cluster rows are those of the sites of out_Jijmatrix.
InitJij ==
    /\ ParserIdle
    /\ WorkflowIdle
    /\ DosIdle
    /\ VoroIdle
    /\ j_pc = "ready"
    /\ \E natom \in 1..MaxJijAtoms :
          /\ jijdata \in JijInputs(natom)
          /\ \E Z \in [1..natom -> ClusterZ] :
                impurity_info =
                    [imp_cls |-> [a \in 1..natom |-> imp_cls_row(a - 1, Z[a])]]
    /\ imp_z \in ImpurityZ \X ImpurityZ
    /\ jij_combined_iter = << >>
    /\ jij_parsed_dict = << >>

NextJij == parse_Jij

SpecJij == InitJij /\ [][NextJij]_vars

-----------------------------------------------------------------------------
(* Properties of parse_Jij *)

JijReturned == j_pc = "returned"

JijAtoms == 0..(Len(impurity_info.imp_cls) - 1)

JijPairs == {t \in JijAtoms \X JijAtoms : t[1] < t[2]}

\* The iteration a component (k, l) other than zz is taken from.
SourceIteration(k, l) ==
    IF k < 2 /\ l < 2 THEN 0
    ELSE IF k # 0 /\ l # 0 THEN 1
    ELSE 2

\* The raw (Rydberg) tensor the rule prescribes for the pair (i, j).
RawTensor(i, j, k, l) ==
    IF k = 2 /\ l = 2
    THEN (jij_reshape(jijdata, 1, i, j, 2, 2)
            + jij_reshape(jijdata, 2, i, j, 2, 2)) \div 2
    ELSE jij_reshape(jijdata, SourceIteration(k, l), i, j, k, l)

\* C22: for every pair i<j the tensor is built by the fixed rule: xx, xy, yx,
\* yy from iteration 0; yz, zy from iteration 1; xz, zx from iteration 2; zz
\* the mean of the zz of iterations 1 and 2; nothing else contributes (the
\* array holds the rule's value in meV with the sign changed).
C22_CombinedTensor ==
    JijReturned =>
        \A t \in JijPairs : \A k \in JijComps, l \in JijComps :
            jij_combined_iter[t[1]][t[2]][k][l]
                = 0 - Ry2meV * RawTensor(t[1], t[2], k, l)

C22_Witness ==
    /\ JijReturned
    /\ <<0, 1>> \in JijPairs
    /\ jij_reshape(jijdata, 0, 0, 1, 2, 2) # 0
    /\ jij_reshape(jijdata, 1, 0, 1, 2, 2) # jij_reshape(jijdata, 2, 0, 1, 2, 2)
    /\ jij_combined_iter[0][1][2][2] # 0
    /\ jij_combined_iter[0][1][0][1] # 0
    /\ jij_combined_iter[0][1][1][2] # 0
    /\ jij_combined_iter[0][1][2][0] # 0

\* The rows written, each with the pair named in its line of the text.
JijRows == 1..Len(jij_parsed_dict.Jijdata)

RowPair(p) == << jij_parsed_dict.text[p][1], jij_parsed_dict.text[p][2] >>

RawTrace(i, j) == RawTensor(i, j, 0, 0) + RawTensor(i, j, 1, 1)
                    + RawTensor(i, j, 2, 2)

\* C23: the coupling J of every emitted pair is a third of the trace of the
\* reconstructed tensor, converted from Ry to meV with the sign changed: a
\* negative raw trace gives a positive J.
C23_ScalarCoupling ==
    JijReturned =>
        \A p \in JijRows :
            LET i == RowPair(p)[1]
                j == RowPair(p)[2]
                J == jij_parsed_dict.Jijdata[p][4]
            IN  /\ i < j
                /\ 3 * J = 0 - Ry2meV * RawTrace(i, j)
                /\ jij_parsed_dict.text[p][3] = J
                /\ RawTrace(i, j) < 0 => J > 0
                /\ RawTrace(i, j) > 0 => J < 0

C23_Witness ==
    /\ JijReturned
    /\ \E p \in JijRows :
          /\ RawTrace(RowPair(p)[1], RowPair(p)[2]) < 0
          /\ jij_parsed_dict.Jijdata[p][4] > 0

\* C24: the vector of every emitted pair is (yz - zy, zx - xz, xy - yx) of
\* the reconstructed tensor in meV, in the order Dx, Dy, Dz, and D is the
\* Euclidean norm of that vector.
C24_DMVector ==
    JijReturned =>
        \A p \in JijRows :
            LET T == jij_combined_iter[RowPair(p)[1]][RowPair(p)[2]]
                row == jij_parsed_dict.Jijdata[p]
            IN  /\ row[6] = T[1][2] - T[2][1]
                /\ row[7] = T[2][0] - T[0][2]
                /\ row[8] = T[0][1] - T[1][0]
                /\ row[5] = sqrt_sum_of_squares(row[6], row[7], row[8])
                /\ jij_parsed_dict.text[p][4] = row[5]

C24_Witness ==
    /\ JijReturned
    /\ \E p \in JijRows :
          LET row == jij_parsed_dict.Jijdata[p]
          IN  /\ row[6] # 0
              /\ row[7] # 0
              /\ row[8] # 0
              /\ row[6] # row[7]
              /\ row[7] # row[8]

\* The sites of the active species: Z is the Zimp of impurity 1 or 2.
ActiveSites ==
    {a \in JijAtoms : impurity_info.imp_cls[a + 1][5] \in {imp_z[1], imp_z[2]}}

ActivePairs == {t \in JijPairs : t[1] \in ActiveSites /\ t[2] \in ActiveSites}

\* C25: a line of the table and a row of JijData are written for the pair
\* (i, j) iff i < j and both sites belong to the active species; every such
\* pair appears once, line p and row p belong to the same pair.
C25_ActivePairsOnly ==
    JijReturned =>
        /\ Len(jij_parsed_dict.text) = Len(jij_parsed_dict.Jijdata)
        /\ {RowPair(p) : p \in JijRows} = ActivePairs
        /\ Len(jij_parsed_dict.Jijdata) = Cardinality(ActivePairs)
        /\ \A p \in JijRows :
              LET i == RowPair(p)[1]
                  j == RowPair(p)[2]
                  cls == impurity_info.imp_cls
              IN  \A c \in 1..3 :
                      jij_parsed_dict.Jijdata[p][c] = cls[j + 1][c] - cls[i + 1][c]

C25_Witness ==
    /\ JijReturned
    /\ imp_z[1] # imp_z[2]
    /\ Cardinality(JijPairs) > Cardinality(ActivePairs)
    /\ \E p \in JijRows :
          /\ impurity_info.imp_cls[RowPair(p)[1] + 1][5] = imp_z[2]
          /\ impurity_info.imp_cls[RowPair(p)[2] + 1][5] = imp_z[1]

-----------------------------------------------------------------------------
(* kkr_dos_wc: the DOS workflow *)

\* Exit codes of kkr_dos_wc.
ERROR_NO_INPUT_REMOTE_DATA == 161
ERROR_KKRCODE_NOT_CORRECT == 162
ERROR_CALC_PARAMETERS_INVALID == 163
ERROR_CALC_PARAMETERS_INCOMPLETE == 164
ERROR_DOS_PARAMS_INVALID == 165
ERROR_DOS_CALC_FAILED == 166

\* The class attribute kkr_dos_wc._options_default.
_options_default ==
    [queue_name |-> "", resources |-> [num_machines |-> 1],
     max_wallclock_seconds |-> 3600, use_mpi |-> TRUE,
     custom_scheduler_commands |-> ""]

\* dict.get(key, default)
Get(d, key, default) == IF key \in DOMAIN d THEN d[key] ELSE default

\* Contents of dos_params given by a user: all five keys, the five keys and
\* a contour keyword, the five keys and a key that is no KKR keyword, or the
\* number of points only.
DosParamDicts ==
    { [nepts |-> 21, tempr |-> 100, emin |-> -2, emax |-> 2,
       kmesh |-> <<10, 10, 10>>],
      [nepts |-> 21, tempr |-> 100, emin |-> -2, emax |-> 2,
       kmesh |-> <<10, 10, 10>>, NPOL |-> 5],
      [nepts |-> 21, tempr |-> 100, emin |-> -2, emax |-> 2,
       kmesh |-> <<10, 10, 10>>, no_keyword |-> 1],
      [nepts |-> 21] }

\* Contents of the wf_parameters input: empty, without dos_params, the
\* default of the port (a node holding a copy of _wf_default), or a user's
\* dos_params.
DosWfDicts ==
    { EmptyDict, [other_key |-> 1], _wf_default }
    \cup { [dos_params |-> d] : d \in DosParamDicts }

\* Contents of the options input: empty, the default of the port (a node
\* holding a copy of _wf_default), or a user's setting.
DosOptionDicts == { EmptyDict, _wf_default, [use_mpi |-> FALSE] }

\* The parameter node of the parent calculation, restricted to the keys of
\* the energy contour and the k-mesh; whether it holds a key that is no KKR
\* keyword; whether mandatory keys are missing and can be taken from the
\* defaults of kkrparams.
ParentParamNodes ==
    { [dict |-> [NPOL |-> npol, NPT1 |-> 3, NPT2 |-> 32, NPT3 |-> 3,
                 EMIN |-> -1, EMAX |-> 1, TEMPR |-> 800,
                 BZDIVIDE |-> <<8, 8, 8>>],
       unknown_keyword |-> FALSE, missing |-> m] :
          npol \in {0, 7}, m \in {"none", "defaulted", "undefaultable"} }
    \cup { [dict |-> [NPOL |-> 7], unknown_keyword |-> u, missing |-> "none"] :
              u \in BOOLEAN }

\* The remote_data input: the calculation it was created by and that
\* calculation's parameter node.
DosRemoteParents == {"KkrCalculation", "VoronoiCalculation", "none"}

\* The plugin of the code given as kkr.
DosCodePlugins == {"kkr.kkr", "kkr.voro"}

\* What the engine does with an if_ condition that returns an exit code
\* instead of a boolean: it takes the value as true, or raises TypeError.
ConditionSemantics == {"truthy", "TypeError"}

\* The DOS calculation when the workflow resumes.
DosRunOutcomes ==
    { [is_finished_ok |-> TRUE, nspin |-> TRUE, complex_dos |-> TRUE],
      [is_finished_ok |-> TRUE, nspin |-> FALSE, complex_dos |-> TRUE],
      [is_finished_ok |-> TRUE, nspin |-> TRUE, complex_dos |-> FALSE],
      [is_finished_ok |-> FALSE, nspin |-> FALSE, complex_dos |-> FALSE] }

\* The keywords kkrparams.set_value accepts, among those of the model.
KKRKeywords ==
    {"NPOL", "NPT1", "NPT2", "NPT3", "EMIN", "EMAX", "TEMPR", "BZDIVIDE",
     "IEMXD"}

\* lines 264-276: the KKR keyword a key of dos_params is written to.
dos_keyword(key) ==
    CASE key = "kmesh" -> "BZDIVIDE"
      [] key = "nepts" -> "NPT2"
      [] key = "emin" -> "EMIN"
      [] key = "emax" -> "EMAX"
      [] key = "tempr" -> "TEMPR"
      [] OTHER -> key

overwrite_contour_nothing(econt) == econt

\* lines 259-261
overwrite_contour(econt) == [NPOL |-> 0, NPT1 |-> 0, NPT3 |-> 0] @@ econt

\* lines 263-278: para_check after the loop over econt_new.
set_dos_values(para_check, econt_new) ==
    LET keywords == {dos_keyword(k) : k \in DOMAIN econt_new}
        mapped == [K \in keywords |->
                      econt_new[CHOOSE k \in DOMAIN econt_new :
                                    dos_keyword(k) = K]]
        iemxd == IF "nepts" \in DOMAIN econt_new /\ "IEMXD" \notin keywords
                 THEN [IEMXD |-> econt_new.nepts]
                 ELSE EmptyDict
    IN  mapped @@ iemxd @@ para_check

DosGoto(step) ==
    /\ dos_pc' = step
    /\ dos_exit_code' = dos_exit_code

\* A step that returns an exit code ends the workflow.
DosTerminate(code) ==
    /\ dos_pc' = "finished"
    /\ dos_exit_code' = code

\* An uncaught exception in a step ends the workflow as excepted.
DosExcept ==
    /\ dos_pc' = "excepted"
    /\ dos_exit_code' = dos_exit_code

\* start (lines 121-171)
dos_start ==
    /\ dos_pc = "start"
    /\ dos_calls' = Append(dos_calls, "start")
    /\ LET given == dos_inputs.wf_parameters
           use_class_default == DOMAIN given = {}
           wf_dict == IF use_class_default THEN wf_default ELSE given
           options_given == dos_inputs.options
           options_dict == IF DOMAIN options_given = {}
                           THEN _options_default ELSE options_given
           opt(key) == Get(options_dict, key, _options_default[key])
           dos_params_dict ==
               IF "dos_params" \in DOMAIN wf_dict
               THEN [is_class_default |-> use_class_default,
                     dict |-> wf_dict.dos_params]
               ELSE [is_class_default |-> TRUE,
                     dict |-> wf_default.dos_params]
       IN  dos_ctx' = [use_mpi |-> opt("use_mpi"),
                       resources |-> opt("resources"),
                       max_wallclock_seconds |-> opt("max_wallclock_seconds"),
                       queue |-> opt("queue_name"),
                       custom_scheduler_commands |->
                           opt("custom_scheduler_commands"),
                       dos_params_dict |-> dos_params_dict,
                       dos_kkrparams |-> NoneVal,
                       successful |-> TRUE,
                       errors |-> << >>]
    /\ DosGoto("validate_input")
    /\ UNCHANGED <<dos_inputs, dos_submitted, dos_outputs, wf_default>>
    /\ UNCHANGED <<pvars, wvars, jvars, vvars>>

\* validate_input (lines 174-216), the condition of the outline's if_
validate_input ==
    /\ dos_pc = "validate_input"
    /\ dos_calls' = Append(dos_calls, "validate_input")
    /\ IF dos_inputs.remote_data.parent = "none"
       THEN \* neither a calculation's nor a kkr_scf_wc's remote folder
            /\ DosExcept
            /\ UNCHANGED dos_ctx
       ELSE IF dos_inputs.kkr # "kkr.kkr"
       THEN \* return self.exit_codes.ERROR_KKRCODE_NOT_CORRECT
            /\ UNCHANGED dos_ctx
            /\ \/ /\ dos_inputs.condition = "truthy"
                  /\ DosGoto("set_params_dos")
               \/ /\ dos_inputs.condition = "TypeError"
                  /\ DosExcept
       ELSE /\ dos_ctx' = [input_params_KKR |-> dos_inputs.remote_data.params]
                              @@ dos_ctx
            /\ DosGoto("set_params_dos")
    /\ UNCHANGED <<dos_inputs, dos_submitted, dos_outputs, wf_default>>
    /\ UNCHANGED <<pvars, wvars, jvars, vvars>>

\* set_params_dos (lines 219-287)
set_params_dos ==
    /\ dos_pc = "set_params_dos"
    /\ dos_calls' = Append(dos_calls, "set_params_dos")
    /\ IF "input_params_KKR" \notin DOMAIN dos_ctx
       THEN /\ DosExcept
            /\ UNCHANGED <<dos_ctx, wf_default>>
       ELSE IF dos_ctx.input_params_KKR.unknown_keyword
       THEN /\ DosTerminate(ERROR_CALC_PARAMETERS_INVALID)
            /\ UNCHANGED <<dos_ctx, wf_default>>
       ELSE IF dos_ctx.input_params_KKR.missing = "undefaultable"
       THEN /\ DosTerminate(ERROR_CALC_PARAMETERS_INCOMPLETE)
            /\ UNCHANGED <<dos_ctx, wf_default>>
       ELSE LET shared == dos_ctx.dos_params_dict.is_class_default
                econt_new == overwrite_contour(dos_ctx.dos_params_dict.dict)
                ctx1 == [dos_ctx EXCEPT !.dos_params_dict.dict = econt_new]
                label == IF dos_ctx.input_params_KKR.missing = "defaulted"
                         THEN "add_defaults_KKRparam_DOS" ELSE "KKRparam_DOS"
            IN  \* econt_new is the dict kept in the context: when that is
                \* the class default, the class default is changed
                /\ wf_default' = IF shared
                                 THEN [wf_default EXCEPT !.dos_params = econt_new]
                                 ELSE wf_default
                /\ IF \E k \in DOMAIN econt_new : dos_keyword(k) \notin KKRKeywords
                   THEN /\ DosTerminate(ERROR_DOS_PARAMS_INVALID)
                        /\ dos_ctx' = ctx1
                   ELSE /\ dos_ctx' =
                             [ctx1 EXCEPT !.dos_kkrparams =
                                 [dict |-> set_dos_values(
                                               dos_ctx.input_params_KKR.dict,
                                               econt_new),
                                  label |-> label]]
                        /\ DosGoto("get_dos")
    /\ UNCHANGED <<dos_inputs, dos_submitted, dos_outputs>>
    /\ UNCHANGED <<pvars, wvars, jvars, vvars>>

\* get_dos (lines 290-315); the workflow resumes when the calculation ended.
get_dos ==
    /\ dos_pc = "get_dos"
    /\ dos_calls' = Append(dos_calls, "get_dos")
    /\ IF ~({"emin", "emax", "nepts", "tempr", "kmesh"}
                \subseteq DOMAIN dos_ctx.dos_params_dict.dict)
       THEN \* KeyError in the description of the calculation
            /\ DosExcept
            /\ UNCHANGED <<dos_ctx, dos_submitted>>
       ELSE /\ dos_submitted' =
                  Append(dos_submitted,
                         [process |-> "KkrCalculation",
                          code |-> dos_inputs.kkr,
                          parameters |-> dos_ctx.dos_kkrparams,
                          serial |-> ~dos_ctx.use_mpi])
            /\ \E dosrun \in DosRunOutcomes :
                  dos_ctx' = [dosrun |-> dosrun, last_calc |-> dosrun] @@ dos_ctx
            /\ DosGoto("return_results")
    /\ UNCHANGED <<dos_inputs, dos_outputs, wf_default>>
    /\ UNCHANGED <<pvars, wvars, jvars, vvars>>

\* lines 325-326
dosrun_failed == ~dos_ctx.dosrun.is_finished_ok

\* return_results (lines 318-385)
dos_return_results ==
    /\ dos_pc = "return_results"
    /\ dos_calls' = Append(dos_calls, "return_results")
    /\ IF "dosrun" \notin DOMAIN dos_ctx
       THEN /\ DosExcept
            /\ UNCHANGED <<dos_ctx, dos_outputs>>
       ELSE IF dosrun_failed
       THEN /\ dos_ctx' = [dos_ctx EXCEPT
                              !.successful = FALSE,
                              !.errors = Append(@, "DOS calculation failed")]
            /\ DosTerminate(ERROR_DOS_CALC_FAILED)
            /\ UNCHANGED dos_outputs
       ELSE /\ dos_ctx' = IF dos_ctx.dosrun.nspin
                          THEN dos_ctx
                          ELSE [dos_ctx EXCEPT
                                   !.successful = FALSE,
                                   !.errors = Append(@, "nspin not extracted")]
            /\ dos_outputs' =
                  {"results_wf"} \cup
                  (IF dos_ctx.dosrun.complex_dos
                   THEN {"dos_data", "dos_data_interpol"} ELSE {})
            /\ DosGoto("finished")
    /\ UNCHANGED <<dos_inputs, dos_submitted, wf_default>>
    /\ UNCHANGED <<pvars, wvars, jvars, vvars>>

\* A kkr_dos_wc launched with the required inputs remote_data and kkr; the
\* class defaults are those of the module.
InitDos ==
    /\ ParserIdle
    /\ WorkflowIdle
    /\ JijIdle
    /\ VoroIdle
    /\ dos_pc = "start"
    /\ \E wf_parameters \in DosWfDicts, options \in DosOptionDicts,
          parent \in DosRemoteParents, params \in ParentParamNodes,
          kkr \in DosCodePlugins, condition \in ConditionSemantics :
          /\ kkr = "kkr.kkr" => condition = "truthy"
          /\ parent = "none" =>
                params = [dict |-> [NPOL |-> 7], unknown_keyword |-> FALSE,
                          missing |-> "none"]
          /\ dos_inputs = [wf_parameters |-> wf_parameters,
                           options |-> options,
                           remote_data |-> [parent |-> parent, params |-> params],
                           kkr |-> kkr,
                           condition |-> condition]
    /\ dos_ctx = << >>
    /\ dos_exit_code = 0
    /\ dos_calls = << >>
    /\ dos_submitted = << >>
    /\ dos_outputs = {}
    /\ wf_default = _wf_default

NextDos ==
    \/ dos_start
    \/ validate_input
    \/ set_params_dos
    \/ get_dos
    \/ dos_return_results

SpecDos == InitDos /\ [][NextDos]_vars

-----------------------------------------------------------------------------
(* Properties of kkr_dos_wc *)

DosTerminal == dos_pc \in {"finished", "excepted"}

DosRan(step) == \E i \in 1..Len(dos_calls) : dos_calls[i] = step

\* C26: return_results runs through and registers results_wf in every run of
\* the workflow that ends without an exception, also when the DOS calculation
\* failed or was never submitted.
C26_ResultsAlways ==
    dos_pc = "finished" =>
        DosRan("return_results") /\ "results_wf" \in dos_outputs

\* What the code does: results_wf is registered exactly when the DOS
\* calculation was submitted and finished ok.
C26_ResultsOnlyAfterSuccess ==
    DosTerminal =>
        ("results_wf" \in dos_outputs
            <=> /\ dos_submitted # << >>
                /\ dos_ctx.dosrun.is_finished_ok)

C26_FailedRun ==
    /\ dos_pc = "finished"
    /\ dos_exit_code = ERROR_DOS_CALC_FAILED
    /\ DosRan("return_results")
    /\ dos_outputs = {}

C26_NeverSubmitted ==
    /\ dos_pc = "finished"
    /\ dos_exit_code = ERROR_CALC_PARAMETERS_INCOMPLETE
    /\ dos_submitted = << >>
    /\ ~DosRan("return_results")

\* The run was given a code that does not use the kkr.kkr plugin, and
\* validate_input got as far as testing it.
WrongPluginRun ==
    /\ DosTerminal
    /\ dos_inputs.kkr # "kkr.kkr"
    /\ dos_inputs.remote_data.parent # "none"

\* C33: with a code that does not use the kkr.kkr plugin the workflow ends
\* with exit code ERROR_KKRCODE_NOT_CORRECT (162); set_params_dos and get_dos
\* are not executed and no DOS calculation is submitted.
C33_WrongPluginExitCode ==
    WrongPluginRun =>
        /\ dos_pc = "finished"
        /\ dos_exit_code = ERROR_KKRCODE_NOT_CORRECT
        /\ ~DosRan("set_params_dos")
        /\ ~DosRan("get_dos")
        /\ dos_submitted = << >>

\* What the code does: the exit code is the value of the if_ condition and
\* never becomes the exit status; the run ends excepted, without a
\* submission.
C33_WrongPluginExcepts ==
    WrongPluginRun =>
        /\ dos_pc = "excepted"
        /\ dos_exit_code = 0
        /\ ~DosRan("get_dos")
        /\ dos_submitted = << >>
        /\ dos_outputs = {}

C33_SetParamsRan ==
    /\ WrongPluginRun
    /\ dos_pc = "excepted"
    /\ dos_calls = << "start", "validate_input", "set_params_dos" >>

\* dos_params as the inputs give it: the user's, or the class default.
GivenDosParams ==
    IF "dos_params" \in DOMAIN dos_inputs.wf_parameters
    THEN dos_inputs.wf_parameters.dos_params
    ELSE _wf_default.dos_params

\* set_params_dos completed without exit code: ctx.dos_kkrparams is set.
SetParamsDone ==
    /\ DosRan("set_params_dos")
    /\ "dict" \in DOMAIN dos_ctx.dos_kkrparams

C35_DefaultsUnchanged == wf_default = _wf_default

\* What the code does: when wf_parameters is empty or holds no 'dos_params',
\* ctx.dos_params_dict is the dict of the class default itself, and
\* set_params_dos adds NPOL, NPT1 and NPT3 to it; otherwise the class
\* default stays as it is.
DefaultIsShared ==
    \/ DOMAIN dos_inputs.wf_parameters = {}
    \/ "dos_params" \notin DOMAIN dos_inputs.wf_parameters

ContourOverwritten ==
    /\ DosRan("set_params_dos")
    /\ "input_params_KKR" \in DOMAIN dos_ctx
    /\ dos_exit_code \notin {ERROR_CALC_PARAMETERS_INVALID,
                              ERROR_CALC_PARAMETERS_INCOMPLETE}

C35_DefaultChangedWhenShared ==
    IF DefaultIsShared /\ ContourOverwritten
    THEN wf_default =
             [dos_params |-> [NPOL |-> 0, NPT1 |-> 0, NPT3 |-> 0]
                                 @@ _wf_default.dos_params]
    ELSE wf_default = _wf_default

C35_DefaultChanged ==
    /\ dos_pc = "finished"
    /\ dos_exit_code = 0
    /\ DOMAIN dos_inputs.wf_parameters = {}
    /\ "NPOL" \in DOMAIN wf_default.dos_params
    /\ "NPOL" \notin DOMAIN _wf_default.dos_params

-----------------------------------------------------------------------------
(* VoronoiCalculation.prepare_for_submission *)

\* File names of the plug-in (lines 41-55).
_INPUT_FILE_NAME == "inputcard"
_OUTPUT_FILE_NAME == "out_voronoi"
_ATOMINFO == "atominfo.txt"
_RADII == "radii.dat"
_SHAPEFUN == "shapefun"
_VERTICES == "vertices.dat"
_OUT_POTENTIAL_voronoi == "output.pot"
_POTENTIAL_IN_OVERWRITE == "overwrite_potential"

\* The optional input ports that define declares (lines 70-72).
VoroOptionalPorts == {"structure", "parent_KKR", "potential_overwrite"}

\* Number of calculations the parent_KKR folder is an output of.
VoroParentCounts == 0..2

\* The calculation that created the parent folder; only a KKR calculation
\* has out_potential among its retrieved files.
VoroParentKinds == {"KkrCalculation", "VoronoiCalculation"}

\* Line 216 calls parent_calc_folder.get_inputs(node_type=JobCalculation):
\* the module binds no name JobCalculation, so the call raises NameError,
\* or AttributeError before that if the folder has no get_inputs.
Line216Errors == {"AttributeError", "NameError"}

Raised(exception) == [raised |-> exception]

IsRaised(result) == "raised" \in DOMAIN result

\* _is_KkrCalc (lines 232-243)
_is_KkrCalc(calc) == calc.kind = "KkrCalculation"

\* _check_valid_parent (lines 208-229)
_check_valid_parent(parent_calc_folder) ==
    IF parent_calc_folder.get_inputs # "ok"
    THEN Raised(parent_calc_folder.get_inputs)
    ELSE IF parent_calc_folder.n_parents # 1
    THEN Raised("UniquenessError")
    ELSE IF ~_is_KkrCalc(parent_calc_folder)
    THEN Raised("ValueError")
    ELSE [overwrite_pot |-> TRUE, parent_calc |-> parent_calc_folder]

\* lines 161-180
local_copy_list(overwrite_potential, found_parent, parent_calc, has_potfile_overwrite) ==
    IF ~overwrite_potential
    THEN << >>
    ELSE IF found_parent /\ _is_KkrCalc(parent_calc)
    THEN << << "parent:out_potential", _POTENTIAL_IN_OVERWRITE >> >>
    ELSE IF has_potfile_overwrite
    THEN << << "potfile_overwrite", _POTENTIAL_IN_OVERWRITE >> >>
    ELSE << >>

\* lines 187-197
retrieve_list(overwrite_potential) ==
    << _OUTPUT_FILE_NAME, _ATOMINFO, _RADII, _SHAPEFUN, _VERTICES,
       _INPUT_FILE_NAME >>
    \o (IF overwrite_potential
        THEN << _POTENTIAL_IN_OVERWRITE >>
        ELSE << _OUT_POTENTIAL_voronoi >>)

\* prepare_for_submission (lines 80-205): the CalcInfo or the exception.
prepare_result(inp) ==
    LET found_structure == "structure" \in inp.ports
        vca_structure == found_structure /\ inp.vca
        found_parent == "parent_KKR" \in inp.ports
        checked == _check_valid_parent(inp.parent_KKR)
        has_potfile_overwrite == "potfile_overwrite" \in inp.ports
        overwrite_potential ==
            \/ has_potfile_overwrite
            \/ found_parent /\ checked.overwrite_pot
    IN  IF found_parent /\ IsRaised(checked)
        THEN checked
        ELSE IF found_parent /\ found_structure /\ ~vca_structure
        THEN Raised("InputValidationError")
        ELSE IF ~found_parent /\ ~found_structure
        THEN Raised("InputValidationError")
        ELSE IF has_potfile_overwrite /\ ~found_structure
        THEN Raised("InputValidationError")
        ELSE IF ~inp.twoDimcheck
        THEN Raised("InputValidationError")
        ELSE IF ~inp.inputcard_ok
        THEN Raised("InputValidationError")
        ELSE [local_copy_list |->
                  local_copy_list(overwrite_potential, found_parent,
                                  inp.parent_KKR, has_potfile_overwrite),
              remote_copy_list |-> << >>,
              retrieve_list |-> retrieve_list(overwrite_potential),
              stdout_name |-> _OUTPUT_FILE_NAME]

prepare_for_submission ==
    /\ voro_pc = "ready"
    /\ calcinfo' = prepare_result(voro_inputs)
    /\ voro_pc' = IF IsRaised(calcinfo') THEN "raised" ELSE "returned"
    /\ UNCHANGED voro_inputs
    /\ UNCHANGED <<pvars, wvars, jvars, dvars>>

\* The parent folder when parent_KKR is not given.
NoParent == [n_parents |-> 0, kind |-> "VoronoiCalculation",
             get_inputs |-> "NameError"]

\* A VoronoiCalculation with parameters and code and any of the optional
\* inputs; the structure may be a VCA structure, the 2D check and the
\* writing of the inputcard may fail.
InitVoro ==
    /\ ParserIdle
    /\ WorkflowIdle
    /\ JijIdle
    /\ DosIdle
    /\ voro_pc = "ready"
    /\ \E ports \in SUBSET VoroOptionalPorts, vca \in BOOLEAN,
          n_parents \in VoroParentCounts, kind \in VoroParentKinds,
          get_inputs \in Line216Errors,
          twoDimcheck \in BOOLEAN, inputcard_ok \in BOOLEAN :
          LET parent == [n_parents |-> n_parents, kind |-> kind,
                         get_inputs |-> get_inputs]
          IN  /\ "structure" \notin ports => ~vca
              /\ "parent_KKR" \notin ports => parent = NoParent
              /\ voro_inputs = [ports |-> ports, vca |-> vca,
                                parent_KKR |-> parent,
                                twoDimcheck |-> twoDimcheck,
                                inputcard_ok |-> inputcard_ok]
    /\ calcinfo = << >>

NextVoro == prepare_for_submission

SpecVoro == InitVoro /\ [][NextVoro]_vars

-----------------------------------------------------------------------------
(* Properties of VoronoiCalculation *)

\* C27: with potential_overwrite and structure given, the CalcInfo copies
\* the file as 'overwrite_potential' and retrieves 'overwrite_potential'
\* and not 'output.pot'.
C27_PotentialOverwriteUsed ==
    /\ voro_pc = "returned"
    /\ {"structure", "potential_overwrite"} \subseteq voro_inputs.ports
    => /\ \E i \in 1..Len(calcinfo.local_copy_list) :
             calcinfo.local_copy_list[i][2] = _POTENTIAL_IN_OVERWRITE
       /\ _POTENTIAL_IN_OVERWRITE \in Range(calcinfo.retrieve_list)
       /\ _OUT_POTENTIAL_voronoi \notin Range(calcinfo.retrieve_list)

\* What the code does: the potential_overwrite input changes nothing.
C27_PotentialOverwriteIgnored ==
    voro_pc \in {"returned", "raised"} =>
        calcinfo = prepare_result(
                       [voro_inputs EXCEPT
                           !.ports = @ \ {"potential_overwrite"}])

C27_OverwriteNotUsed ==
    /\ voro_pc = "returned"
    /\ voro_inputs.ports = {"structure", "potential_overwrite"}
    /\ calcinfo.local_copy_list = << >>
    /\ _OUT_POTENTIAL_voronoi \in Range(calcinfo.retrieve_list)
    /\ _POTENTIAL_IN_OVERWRITE \notin Range(calcinfo.retrieve_list)

\* C28: a parent folder created by exactly one calculation, Voronoi or KKR,
\* is accepted by _check_valid_parent; any other number of creating
\* calculations raises UniquenessError.
C28_ValidParent ==
    /\ voro_pc \in {"returned", "raised"}
    /\ "parent_KKR" \in voro_inputs.ports
    => LET checked == _check_valid_parent(voro_inputs.parent_KKR)
       IN  IF voro_inputs.parent_KKR.n_parents = 1
           THEN /\ ~IsRaised(checked)
                /\ checked.parent_calc = voro_inputs.parent_KKR
           ELSE /\ checked = Raised("UniquenessError")
                /\ calcinfo = checked

\* What the code does: with parent_KKR given, prepare_for_submission ends
\* with the error of line 216 whatever the parent is.
C28_ParentAlwaysFails ==
    /\ voro_pc \in {"returned", "raised"}
    /\ "parent_KKR" \in voro_inputs.ports
    => /\ voro_pc = "raised"
       /\ calcinfo.raised \in Line216Errors

C28_KkrParentRejected ==
    /\ voro_pc = "raised"
    /\ voro_inputs.ports = {"parent_KKR"}
    /\ voro_inputs.parent_KKR.n_parents = 1
    /\ voro_inputs.parent_KKR.kind = "KkrCalculation"
    /\ voro_inputs.twoDimcheck
    /\ voro_inputs.inputcard_ok
    /\ calcinfo.raised = "NameError"

=============================================================================
